---- MODULE Spec2Model ----
(***************************************************************************)
(* A model of the HSR resource database tools:                             *)
(*   build_db.py          batch ingestion into one sqlite store            *)
(*   build_module_dbs.py  per-module shards with a projected text_map      *)
(*   serve.py             read path: hash keys, text lookup, templates,    *)
(*                        level statistics                                 *)
(* Strings are sequences of one-character strings, so that strip(),        *)
(* regular-expression matches and number formatting are computed.          *)
(***************************************************************************)
EXTENDS Integers, Sequences, FiniteSets, TLC

VARIABLES
    \* ---- build_module_dbs.py: one build_one_module call ----
    src,             \* the attached source database (ATTACH ... AS src)
    index,           \* entries of the index structures read from ExcelOutput
    xxhashAvail,     \* serve.py: the xxhash module was imported
    xxhsumAvail,     \* serve.py: XXHSUM_BIN was found and works
    module,          \* the module whose rows the source holds / that is built
    shard,           \* the output database of build_one_module
    needed_hash,     \* TEMP TABLE needed_hash of the shard connection
    extra,           \* the set returned by gather_module_hashes
    langs,           \* build_one_module's langs argument
    with_text_map,   \* build_one_module's with_text_map argument
    phase,           \* "source": nothing built yet; "built": build_one_module returned
    \* ---- serve.py: text dereferences of the API handlers ----
    served,          \* text_map of the database the handler opened
    call,            \* the last dereference: site, lang, key, result, languages queried
    \* ---- build_db.py: main and the ingestion steps ----
    resources_root,  \* the resource files: parse status and content of each
    fts5Avail,       \* sqlite was built with FTS5
    disk,            \* the committed content of the database file, or NoFile
    dbconn,          \* the tables as the open connection sees them
    text_maps,       \* main's lang_maps, the result of load_text_maps
    pc,              \* the step main is about to run
    ran,             \* how many times each ingestion step has run on conn
    parse_errors,    \* the parse_errors counter of insert_story_references
    \* ---- serve.py: apply_param_template ----
    template,        \* the template argument (a string, or None)
    segments,        \* the pieces the template was written from
    raw_params,      \* the raw_params argument
    rendered,        \* the outcome of the call: a value returned or an exception
    \* ---- serve.py: build_avatar_level_stats ----
    promotions,      \* the promotion rows of one avatar as the handler selected them
    level_max,       \* the max_level argument
    level_stats,     \* the list returned, or NotCalled
    worker_stats,    \* cf_worker entry.py: the list build_level_stats returned, or NotCalled
    \* ---- serve.py: hash_text_key and its lru_cache ----
    hash_cache,      \* the cache: [key, result] entries, least recently used first
    hash_log,        \* the calls made so far: key, result, process, environment
    hash_proc,       \* the number of the running server process
    \* ---- build_db.py: extract_reference_rows on one document ----
    story_data,      \* the parsed narrative document
    story_rows,      \* the rows returned, or NotCalled
    \* ---- build_db.py: insert_story_references, file by file ----
    ref_files,       \* the narrative files in the order iterated: their documents
    ref_loop,        \* the loop: files done, batch, counters, story_reference so far
    \* ---- serve.py: request handlers calling ensure_lang_loaded concurrently ----
    tm_before,       \* text_map of the database file before any request
    tm_file,         \* text_map of the database file: the committed rows
    tm_lock,         \* the handler whose connection holds the write lock, or 0
    handlers,        \* each handler thread: position, language, merged documents, view
    \* ---- serve.py: _api_search_dialogue ----
    dialogue,        \* the rows of talk_sentence joined with their text
    fts_state,       \* "absent", "failing" or "working": talk_sentence_fts and its query
    search,          \* the last search: q, page, page size, items, total
    \* ---- build_module_dbs.py main and serve.py run: the per-module stores ----
    stores,          \* the output database of each module, or NoStore
    db_paths,        \* the modules for which the server was given a store
    request,         \* the last API request: handler, argument, response
    \* ---- scripts/export_sqlite_dump.py: export_merge_d1_compatible ----
    dump,            \* the statements iterdump_prefixed yields, each as its lines
    d1               \* the export: statements done, in_trigger_block, lines written

envVars == <<xxhashAvail, xxhsumAvail>>
closureVars == <<src, index, module, shard, needed_hash, extra, langs, with_text_map, phase>>
readVars == <<served, call>>
buildVars == <<resources_root, fts5Avail, disk, dbconn, text_maps, pc, ran, parse_errors>>

templateVars == <<template, segments, raw_params, rendered>>
statVars == <<promotions, level_max, level_stats, worker_stats>>
hashVars == <<hash_cache, hash_log, hash_proc>>
walkVars == <<story_data, story_rows>>
loadVars == <<tm_before, tm_file, tm_lock, handlers>>
searchVars == <<dialogue, fts_state, search>>
refVars == <<ref_files, ref_loop>>
shardVars == <<stores, db_paths, request>>
exportVars == <<dump, d1>>
moreVars == <<loadVars, searchVars, refVars, shardVars, exportVars>>
laterVars == <<hashVars, walkVars, moreVars>>
vars == <<envVars, closureVars, readVars, buildVars, templateVars, statVars, laterVars>>

-----------------------------------------------------------------------------
(* Python values *)

\* Python's None; no string is equal to it, every character being one letter.
None == <<"None">>

Digits == {"0", "1", "2", "3", "4", "5", "6", "7", "8", "9"}

\* str.strip() on the character sequence s (the only white space used is " ")
RECURSIVE LStrip(_)
LStrip(s) == IF s # <<>> /\ Head(s) = " " THEN LStrip(Tail(s)) ELSE s

RECURSIVE RStrip(_)
RStrip(s) == IF s # <<>> /\ s[Len(s)] = " " THEN RStrip(SubSeq(s, 1, Len(s) - 1)) ELSE s

Strip(s) == RStrip(LStrip(s))

\* RAW_HASH_RE.fullmatch(token): ^\d+$
IsDigits(s) == Len(s) > 0 /\ \A i \in 1..Len(s) : s[i] \in Digits

DigitChar(d) == CASE d = 0 -> "0" [] d = 1 -> "1" [] d = 2 -> "2" [] d = 3 -> "3"
                  [] d = 4 -> "4" [] d = 5 -> "5" [] d = 6 -> "6" [] d = 7 -> "7"
                  [] d = 8 -> "8" [] OTHER -> "9"

RECURSIVE NatToStr(_)
NatToStr(n) == IF n < 10 THEN <<DigitChar(n)>>
               ELSE NatToStr(n \div 10) \o <<DigitChar(n % 10)>>

\* str(n) of a Python int
IntToStr(n) == IF n < 0 THEN <<"-">> \o NatToStr(0 - n) ELSE NatToStr(n)

\* JSON values as read by json.load
JNull == [k |-> "null"]
JInt(n) == [k |-> "int", n |-> n]
JStr(s) == [k |-> "str", s |-> s]
JHash(v) == [k |-> "dict", Hash |-> v]

\* build_db.py as_hash: the address stored in a *_hash column
as_hash(value) ==
    LET raw == IF value.k = "dict" THEN value.Hash ELSE value
    IN  CASE raw.k = "null" -> None
          [] raw.k = "bool" -> None
          [] raw.k = "int" -> IntToStr(raw.n)
          [] raw.k = "str" -> (IF Strip(raw.s) # <<>> THEN Strip(raw.s) ELSE None)
          [] OTHER -> None

\* serve.py extract_hash_value: the address stored in an index structure
extract_hash_value(value) ==
    LET raw == IF value.k = "dict" THEN value.Hash ELSE value
    IN  CASE raw.k = "null" -> None
          [] raw.k = "int" -> IntToStr(raw.n)
          [] raw.k = "str" -> (IF Strip(raw.s) # <<>> THEN Strip(raw.s) ELSE None)
          [] OTHER -> None

-----------------------------------------------------------------------------
(* serve.py hash_text_key *)

\* XXH64 itself is not computed: the digest is a polynomial code of the
\* characters kept to DigestModulus, which like the real digest is a number
\* determined by the bytes of the token.  Both implementations compute it;
\* they differ in how the number reaches the caller.
DigestModulus == 16777216
CharCode(c) == CASE c = "a" -> 97 [] c = "b" -> 98 [] c = "-" -> 45 [] c = " " -> 32
                 [] c = "_" -> 95
                 [] c \in Digits -> 48 + (CHOOSE d \in 0..9 : DigitChar(d) = c)
                 [] OTHER -> 63

RECURSIVE Xxh64(_)
Xxh64(token) ==
    IF token = <<>> THEN 0
    ELSE (Xxh64(SubSeq(token, 1, Len(token) - 1)) * 131 + CharCode(token[Len(token)]))
            % DigestModulus

\* str(xxhash.xxh64(token.encode("utf-8")).intdigest())
Xxh64Decimal(token) == NatToStr(Xxh64(token))

HexChar(d) == CASE d = 10 -> "a" [] d = 11 -> "b" [] d = 12 -> "c" [] d = 13 -> "d"
                [] d = 14 -> "e" [] d = 15 -> "f" [] OTHER -> DigitChar(d)
HexDigits == {HexChar(d) : d \in 0..15} \cup {"A", "B", "C", "D", "E", "F"}
HexVal(c) == CASE c = "A" -> 10 [] c = "B" -> 11 [] c = "C" -> 12 [] c = "D" -> 13
               [] c = "E" -> 14 [] c = "F" -> 15
               [] OTHER -> CHOOSE d \in 0..15 : HexChar(d) = c

RECURSIVE NatToHex(_)
NatToHex(n) == IF n < 16 THEN <<HexChar(n)>>
               ELSE NatToHex(n \div 16) \o <<HexChar(n % 16)>>

RECURSIVE LeftPad(_, _, _)
LeftPad(s, c, width) == IF Len(s) >= width THEN s ELSE LeftPad(<<c>> \o s, c, width)

\* what  xxhsum -H1  prints for the token on stdin: the digest as 16
\* hexadecimal digits, two blanks, the name of the input
XxhsumStdout(token) ==
    LeftPad(NatToHex(Xxh64(token)), "0", 16) \o <<" ", " ", "s", "t", "d", "i", "n">>

\* s.strip().split()[0], or the empty string when split() returns nothing
RECURSIVE UpToBlank(_)
UpToBlank(s) == IF s = <<>> \/ Head(s) = " " THEN <<>> ELSE <<Head(s)>> \o UpToBlank(Tail(s))
FirstField(s) == UpToBlank(Strip(s))

\* int(s, base) for a numeral of that base
RECURSIVE BaseToNat(_, _)
BaseToNat(s, base) ==
    IF s = <<>> THEN 0
    ELSE base * BaseToNat(SubSeq(s, 1, Len(s) - 1), base) + HexVal(s[Len(s)])

\* XXH64_TOKEN_RE.fullmatch: ^[0-9a-fA-F]{16}$
IsXxh64Token(s) == Len(s) = 16 /\ \A i \in 1..16 : s[i] \in HexDigits

XxhsumAddressBase10(stdout) ==
    LET first == FirstField(stdout) IN
    IF first # <<>> /\ IsXxh64Token(first) THEN NatToStr(BaseToNat(first, 10)) ELSE None

\* the address read from the output of xxhsum: str(int(first[0], 16))
XxhsumAddress(stdout) ==
    LET first == FirstField(stdout) IN
    IF first # <<>> /\ IsXxh64Token(first) THEN NatToStr(BaseToNat(first, 16)) ELSE None

HashTextKeyAlwaysHashing(raw_key, lib, bin) ==
    LET token == Strip(raw_key)
    IN  IF token = <<>> THEN None
        ELSE IF lib THEN Xxh64Decimal(token)
        ELSE IF bin THEN XxhsumAddress(XxhsumStdout(token))
        ELSE None

\* hash_text_key(raw_key) under the availability of the two implementations
HashTextKeyWith(raw_key, lib, bin) ==
    LET token == Strip(raw_key)
    IN  IF token = <<>> THEN None
        ELSE IF IsDigits(token) THEN token
        ELSE IF lib THEN Xxh64Decimal(token)
        ELSE IF bin THEN XxhsumAddress(XxhsumStdout(token))
        ELSE None

hash_text_key(raw_key) == HashTextKeyWith(raw_key, xxhashAvail, xxhsumAvail)

\* Python truthiness of an Optional[str]
Truthy(s) == s # None /\ s # <<>>

-----------------------------------------------------------------------------
(* build_module_dbs.py *)

MODULES == {"avatar", "dialogue", "mission", "item", "monster"}

\* The tables of create_schema that carry addresses, all empty.
EmptyDb == [text_map |-> {}, avatar |-> {}, avatar_skill |-> {}, avatar_rank |-> {},
            talk_sentence |-> {}, main_mission |-> {}, sub_mission |-> {}, item |-> {}]

ModuleTables(m) ==
    CASE m = "avatar" -> {"avatar", "avatar_skill", "avatar_rank"}
      [] m = "dialogue" -> {"talk_sentence"}
      [] m = "mission" -> {"main_mission", "sub_mission"}
      [] m = "item" -> {"item"}
      [] OTHER -> {}

\* copy_module_tables: INSERT INTO t SELECT * FROM src.t for the module's tables
copy_module_tables(conn, m) ==
    [t \in DOMAIN conn |-> IF t \in ModuleTables(m) THEN src[t] ELSE conn[t]]

\* SELECT col FROM table WHERE col IS NOT NULL AND col != ''
SelectHash(conn, table, col) ==
    {r[col] : r \in {x \in conn[table] : x[col] # None /\ x[col] # <<>>}}

\* the rows gather_module_hashes adds to needed_hash through add_hashes_from_sql
GatherSqlHashes(conn, m) ==
    CASE m = "avatar" ->
            SelectHash(conn, "avatar", "name_hash") \cup SelectHash(conn, "avatar", "full_name_hash")
            \cup SelectHash(conn, "avatar_skill", "name_hash")
            \cup SelectHash(conn, "avatar_skill", "desc_hash")
            \cup SelectHash(conn, "avatar_skill", "tag_hash")
      [] m = "dialogue" ->
            SelectHash(conn, "talk_sentence", "speaker_hash")
            \cup SelectHash(conn, "talk_sentence", "text_hash")
      [] m = "mission" ->
            SelectHash(conn, "main_mission", "name_hash")
            \cup SelectHash(conn, "sub_mission", "target_hash")
            \cup SelectHash(conn, "sub_mission", "description_hash")
      [] m = "item" ->
            SelectHash(conn, "item", "item_name_hash") \cup SelectHash(conn, "item", "item_desc_hash")
            \cup SelectHash(conn, "item", "item_bg_desc_hash")
      [] OTHER -> {}

\* add_hash_if_any(out, raw)
add_hash_if_any(out, raw) ==
    IF ~Truthy(raw) THEN out
    ELSE LET h == hash_text_key(raw)
         IN  IF Truthy(h) THEN out \cup {h} ELSE out

RECURSIVE AddAll(_, _)
AddAll(out, raws) ==
    IF raws = {} THEN out
    ELSE LET r == CHOOSE x \in raws : TRUE
         IN  AddAll(add_hash_if_any(out, r), raws \ {r})

\* the index structures a module's gather step enumerates, with their fields
IndexFields(m) ==
    CASE m = "avatar" -> {<<"stories_by_avatar", "story_hash">>,
                          <<"story_name_hash_by_id", "story_name">>}
      [] m = "item" -> {<<"light_cone", "skill_name_hash">>, <<"light_cone", "skill_desc_hash">>}
      [] m = "monster" -> {<<"monster_items", "name_hash">>,
                           <<"monster_items", "introduction_hash">>,
                           <<"monster_items", "ability_name_keys">>,
                           <<"monster_skills", "name_hash">>, <<"monster_skills", "desc_hash">>,
                           <<"monster_skills", "type_desc_hash">>, <<"monster_skills", "tag_hash">>}
      [] OTHER -> {}

\* the index values gather_module_hashes passes to add_hash_if_any:
\* those of the module's structures that are strings
IndexStrings(m) ==
    {e.val : e \in {x \in index : <<x.idx, x.field>> \in IndexFields(m) /\ x.val # None}}

\* the keys of avatar_rank rows: name_raw, desc_raw and the strings of rank_ability_json
RankKeys(conn) ==
    UNION {{r.name_raw, r.desc_raw} \cup {r.rank_ability[i] : i \in 1..Len(r.rank_ability)}
           : r \in conn.avatar_rank}

\* gather_module_hashes: the returned set (the SQL part goes to needed_hash)
gather_module_hashes(conn, m) ==
    CASE m = "avatar" -> AddAll(AddAll({}, RankKeys(conn)), IndexStrings(m))
      [] m = "item" -> AddAll({}, IndexStrings(m))
      [] m = "monster" -> AddAll({}, IndexStrings(m))
      [] OTHER -> {}

\* add_hashes_from_iter: INSERT OR IGNORE the non-empty hashes
add_hashes_from_iter(nh, hashes) == nh \cup {h \in hashes : Truthy(h)}

\* copy_text_map_for_hashes without the WHERE lang IN (...) filter
copy_text_map_all_langs(nh, lg) ==
    {tm \in src.text_map : \E h \in nh : h = tm.hash}

\* copy_text_map_for_hashes: src.text_map JOIN needed_hash WHERE lang IN langs
copy_text_map_for_hashes(nh, lg) ==
    {tm \in src.text_map : (\E h \in nh : h = tm.hash) /\ tm.lang \in lg}

\* build_one_module on a fresh output database: the tables, needed_hash and
\* the set returned by gather_module_hashes
build_one_module(m, lg, wtm) ==
    LET conn0 == copy_module_tables(EmptyDb, m)
        sql   == IF wtm THEN GatherSqlHashes(conn0, m) ELSE {}
        out   == IF wtm THEN gather_module_hashes(conn0, m) ELSE {}
        nh    == IF wtm THEN add_hashes_from_iter(sql, out) ELSE {}
        tm    == IF wtm THEN copy_text_map_for_hashes(nh, lg) ELSE {}
    IN  [conn |-> [conn0 EXCEPT !.text_map = tm], needed_hash |-> nh, extra |-> out]

-----------------------------------------------------------------------------
(* Each specification below runs one part of the tools; the state of the
   other parts then rests at these values. *)

NoCall == [site |-> "none", lang |-> "", key |-> None, addr |-> None, result |-> None,
           consulted |-> <<>>]

ClosureIdle ==
    /\ src = EmptyDb /\ index = {} /\ module = "avatar" /\ shard = EmptyDb
    /\ needed_hash = {} /\ extra = {} /\ langs = {} /\ with_text_map = FALSE
    /\ phase = "idle"

EnvIdle == xxhashAvail = TRUE /\ xxhsumAvail = TRUE

ReadIdle == served = {} /\ call = NoCall

BuildIdle ==
    /\ resources_root = <<>> /\ fts5Avail = TRUE /\ disk = <<>> /\ dbconn = <<>>
    /\ text_maps = <<>>
    /\ pc = "idle" /\ ran = <<>> /\ parse_errors = 0

NotCalled == [called |-> FALSE]

TemplateIdle == template = None /\ segments = <<>> /\ raw_params = JNull /\ rendered = NotCalled

StatIdle ==
    /\ promotions = <<>> /\ level_max = 0 /\ level_stats = NotCalled
    /\ worker_stats = NotCalled

HashIdle == hash_cache = <<>> /\ hash_log = <<>> /\ hash_proc = 0

WalkIdle == story_data = JNull /\ story_rows = NotCalled

LoadIdle == tm_before = <<>> /\ tm_file = <<>> /\ tm_lock = 0 /\ handlers = <<>>

SearchIdle == dialogue = <<>> /\ fts_state = "absent" /\ search = NotCalled

RefIdle == ref_files = <<>> /\ ref_loop = NotCalled

NoStore == <<>>
ShardIdle == stores = <<>> /\ db_paths = {} /\ request = NotCalled

ExportIdle == dump = <<>> /\ d1 = NotCalled

MoreIdle == LoadIdle /\ SearchIdle /\ RefIdle /\ ShardIdle /\ ExportIdle

LaterIdle == HashIdle /\ WalkIdle /\ MoreIdle

-----------------------------------------------------------------------------
(* The source database and resources a build starts from *)

MaxRows == 1        \* entity rows and index entries of the module's source
MaxTextRows == 3    \* rows of src.text_map

S12 == <<"1", "2">>
SNeg12 == <<"-", "1", "2">>
SAb == <<"a", "b">>

\* raw JSON of a hash field in a table export, and of one in an index file
ColRaw == {JNull, JHash(JInt(12))}
IndexRaw == {JNull, JHash(JInt(12)), JHash(JInt(0 - 12)), JHash(JStr(<<" ", "a", "b">>))}
ColVals == {as_hash(v) : v \in ColRaw}
RawKeys == {None, SAb}

Bit(v) == IF v = None THEN 0 ELSE 1

\* candidate rows per table; the primary key is derived from the content so
\* that different rows of one table never share it
AvatarRows == {[tbl |-> "avatar", avatar_id |-> 1 + Bit(a) + 2 * Bit(b),
                name_hash |-> a, full_name_hash |-> b] : a \in ColVals, b \in ColVals}
AvatarSkillRows == {[tbl |-> "avatar_skill", skill_id |-> 1 + Bit(a) + 2 * Bit(b) + 4 * Bit(c),
                     level |-> 1, name_hash |-> a, desc_hash |-> b, tag_hash |-> c]
                    : a \in ColVals, b \in ColVals, c \in ColVals}
AvatarRankRows == {[tbl |-> "avatar_rank",
                    rank_id |-> 1 + Bit(t) + 2 * Bit(n) + 4 * Bit(d) + 8 * Len(ab),
                    trigger_hash |-> t, name_raw |-> n, desc_raw |-> d, rank_ability |-> ab]
                   : t \in ColVals, n \in RawKeys, d \in RawKeys, ab \in {<<>>, <<SAb>>}}
TalkRows == {[tbl |-> "talk_sentence", talk_sentence_id |-> 1 + Bit(a) + 2 * Bit(b),
              speaker_hash |-> a, text_hash |-> b] : a \in ColVals, b \in ColVals}
MainMissionRows == {[tbl |-> "main_mission", main_mission_id |-> 1 + Bit(a), name_hash |-> a]
                    : a \in ColVals}
SubMissionRows == {[tbl |-> "sub_mission", sub_mission_id |-> 1 + Bit(a) + 2 * Bit(b),
                    target_hash |-> a, description_hash |-> b] : a \in ColVals, b \in ColVals}
ItemRows == {[tbl |-> "item", item_id |-> 1 + Bit(a) + 2 * Bit(b) + 4 * Bit(c),
              item_name_hash |-> a, item_desc_hash |-> b, item_bg_desc_hash |-> c]
             : a \in ColVals, b \in ColVals, c \in ColVals}

EntityRows(m) ==
    CASE m = "avatar" -> AvatarRows \cup AvatarSkillRows \cup AvatarRankRows
      [] m = "dialogue" -> TalkRows
      [] m = "mission" -> MainMissionRows \cup SubMissionRows
      [] m = "item" -> ItemRows
      [] OTHER -> {}

\* ability_name_keys holds raw keys; every other index field holds the
\* result of extract_hash_value
IndexEntries(m) ==
    {[tbl |-> "index", idx |-> f[1], field |-> f[2], val |-> extract_hash_value(v)]
       : f \in {g \in IndexFields(m) : g[2] # "ability_name_keys"}, v \in IndexRaw}
    \cup {[tbl |-> "index", idx |-> f[1], field |-> f[2], val |-> SAb]
           : f \in {g \in IndexFields(m) : g[2] = "ability_name_keys"}}

TextLangs == {"CHS", "JP"}
TextAddrs == {S12, Xxh64Decimal(SAb)}
TextRows == {[lang |-> l, hash |-> h, text |-> <<"t">>] : l \in TextLangs, h \in TextAddrs}
LangChoices == {{"CHS"}, {"EN", "JP"}}

RECURSIVE SubsetsUpTo(_, _)
SubsetsUpTo(S, n) ==
    IF n = 0 \/ S = {} THEN {{}}
    ELSE LET x == CHOOSE y \in S : TRUE
             rest == S \ {x}
         IN  SubsetsUpTo(rest, n) \cup {T \cup {x} : T \in SubsetsUpTo(rest, n - 1)}

SourceDb(rows, text) ==
    [t \in DOMAIN EmptyDb |-> IF t = "text_map" THEN text ELSE {r \in rows : r.tbl = t}]

ClosureInit ==
    /\ module \in MODULES
    /\ xxhashAvail \in BOOLEAN
    /\ xxhsumAvail \in BOOLEAN
    /\ \E rows \in SubsetsUpTo(EntityRows(module) \cup IndexEntries(module), MaxRows),
          text \in SubsetsUpTo(TextRows, MaxTextRows) :
          /\ src = SourceDb(rows, text)
          /\ index = {r \in rows : r.tbl = "index"}
    /\ shard = EmptyDb
    /\ needed_hash = {}
    /\ extra = {}
    /\ langs = {}
    /\ with_text_map = FALSE
    /\ phase = "source"
    /\ ReadIdle
    /\ BuildIdle
    /\ TemplateIdle /\ StatIdle /\ LaterIdle

BuildOneModule ==
    /\ phase = "source"
    /\ \E lg \in LangChoices, wtm \in BOOLEAN :
          LET b == build_one_module(module, lg, wtm)
          IN  /\ shard' = b.conn
              /\ needed_hash' = b.needed_hash
              /\ extra' = b.extra
              /\ langs' = lg
              /\ with_text_map' = wtm
    /\ phase' = "built"
    /\ UNCHANGED <<src, index, module, envVars, readVars, buildVars, templateVars, statVars, laterVars>>

SpecClosure == ClosureInit /\ [][BuildOneModule]_vars

-----------------------------------------------------------------------------
(* Claims about build_one_module *)

\* the closure computed for the module: needed_hash plus the returned set
Closure == needed_hash \cup extra

Built == phase = "built" /\ with_text_map

\* the *_hash columns of the entity tables
HashCols(t) ==
    CASE t = "avatar" -> {"name_hash", "full_name_hash"}
      [] t = "avatar_skill" -> {"name_hash", "desc_hash", "tag_hash"}
      [] t = "avatar_rank" -> {"trigger_hash"}
      [] t = "talk_sentence" -> {"speaker_hash", "text_hash"}
      [] t = "main_mission" -> {"name_hash"}
      [] t = "sub_mission" -> {"target_hash", "description_hash"}
      [] t = "item" -> {"item_name_hash", "item_desc_hash", "item_bg_desc_hash"}
      [] OTHER -> {}

\* C1: in a shard built with text-map embedding, every non-empty hash field
\* of every copied entity row is a member of the module's closure.
C1_HashFieldsInClosure ==
    Built => \A t \in ModuleTables(module) : \A r \in shard[t] : \A c \in HashCols(t) :
                Truthy(r[c]) => r[c] \in Closure

\* the addresses the read path takes from the index structures and passes,
\* unchanged, to resolve_hash_texts
IndexAddresses(m) ==
    {e.val : e \in {x \in index : /\ <<x.idx, x.field>> \in IndexFields(m)
                                  /\ x.field # "ability_name_keys"
                                  /\ Truthy(x.val)}}

\* C2: every address enumerated from an index structure of the module is, as
\* the same string, a member of the module's closure.
C2_IndexAddressesInClosure ==
    Built => \A a \in IndexAddresses(module) : a \in Closure

\* C3: the shard's text_map holds exactly the source rows whose hash is in
\* the closure and whose lang is requested.
C3_TextMapIsProjection ==
    Built => shard.text_map =
                {r \in src.text_map : r.hash \in Closure /\ r.lang \in langs}

\* a build that copied some source text rows and left others out
C3_Witness ==
    /\ Built
    /\ shard.text_map # {}
    /\ \E r \in src.text_map : r \notin shard.text_map /\ r.hash \in Closure
    /\ \E r \in src.text_map : r \notin shard.text_map /\ r.hash \notin Closure

-----------------------------------------------------------------------------
(* serve.py: dereferencing text keys and hash addresses *)

\* SELECT text FROM text_map WHERE lang = ? AND hash = ?  ... fetchone()
LookupText(tm, lang, hashed) ==
    IF \E r \in tm : r.lang = lang /\ r.hash = hashed
    THEN (CHOOSE r \in tm : r.lang = lang /\ r.hash = hashed).text
    ELSE None

resolve_text_from_key(tm, lang, raw_key) ==
    IF ~Truthy(raw_key) THEN None
    ELSE LET hashed == hash_text_key(raw_key)
         IN  IF ~Truthy(hashed) THEN None ELSE LookupText(tm, lang, hashed)

\* the languages whose rows resolve_text_from_key selects
QueriedFromKey(lang, raw_key) ==
    IF Truthy(raw_key) /\ Truthy(hash_text_key(raw_key)) THEN <<lang>> ELSE <<>>

resolve_text_with_fallback_en_first(tm, lang, raw_key, fallback) ==
    LET text == resolve_text_from_key(tm, lang, raw_key)
        chs  == resolve_text_from_key(tm, "CHS", raw_key)
        en   == resolve_text_from_key(tm, "EN", raw_key)
    IN  IF Truthy(text) THEN text
        ELSE IF lang # "EN" /\ Truthy(en) THEN en
        ELSE IF lang # "CHS" /\ Truthy(chs) THEN chs
        ELSE fallback

resolve_text_with_fallback(tm, lang, raw_key, fallback) ==
    LET text == resolve_text_from_key(tm, lang, raw_key)
        chs  == resolve_text_from_key(tm, "CHS", raw_key)
        en   == resolve_text_from_key(tm, "EN", raw_key)
    IN  IF Truthy(text) THEN text
        ELSE IF lang # "CHS" /\ Truthy(chs) THEN chs
        ELSE IF lang # "EN" /\ Truthy(en) THEN en
        ELSE fallback

\* the languages resolve_text_with_fallback queries, in order
QueriedWithFallback(tm, lang, raw_key) ==
    LET first == QueriedFromKey(lang, raw_key)
        second == IF lang # "CHS" THEN QueriedFromKey("CHS", raw_key) ELSE <<>>
        third == IF lang # "EN" THEN QueriedFromKey("EN", raw_key) ELSE <<>>
    IN  IF Truthy(resolve_text_from_key(tm, lang, raw_key)) THEN first
        ELSE IF lang # "CHS" /\ Truthy(resolve_text_from_key(tm, "CHS", raw_key))
             THEN first \o second
        ELSE first \o second \o third

\* resolve_hash_texts: the selected rows, read as the dict hash -> text
resolve_hash_texts(tm, lang, hashes) ==
    LET clean == {h \in hashes : Truthy(h)}
    IN  {r \in tm : r.lang = lang /\ r.hash \in clean}

\* dict.get(key) on the result of resolve_hash_texts
MapGet(rows, key) ==
    IF \E r \in rows : r.hash = key THEN (CHOOSE r \in rows : r.hash = key).text ELSE None

\* Python's  a or b
PyOr(a, b) == IF Truthy(a) THEN a ELSE b

\* _api_monster_detail.resolve_hash over the three maps the handler selected
resolve_hash(tm, lang, h) ==
    LET lang_map == resolve_hash_texts(tm, lang, {h})
        chs_map  == IF lang # "CHS" THEN resolve_hash_texts(tm, "CHS", {h}) ELSE {}
        en_map   == IF lang # "EN" THEN resolve_hash_texts(tm, "EN", {h}) ELSE {}
    IN  IF ~Truthy(h) THEN None
        ELSE PyOr(PyOr(MapGet(lang_map, h), MapGet(chs_map, h)), MapGet(en_map, h))

\* the languages _api_monster_detail selects for a hash
QueriedByResolveHash(lang, h) ==
    IF ~Truthy(h) THEN <<>>
    ELSE <<lang>> \o (IF lang # "CHS" THEN <<"CHS">> ELSE <<>>)
                  \o (IF lang # "EN" THEN <<"EN">> ELSE <<>>)

\* ---- the databases a handler may open, and the requests ----

MaxServedRows == 2    \* rows of the served text_map

ReadLangs == {"CHS", "EN", "JP"}
LangText(l) == CASE l = "CHS" -> <<"c">> [] l = "EN" -> <<"e">> [] OTHER -> <<"j">>
ServedRows == {[lang |-> l, hash |-> h, text |-> <<>>] : l \in ReadLangs, h \in TextAddrs}
               \cup {[lang |-> l, hash |-> h, text |-> LangText(l)] :
                  l \in ReadLangs, h \in TextAddrs}
\* text_map has PRIMARY KEY (lang, hash)
KeyUnique(T) == \A a, b \in T : (a.lang = b.lang /\ a.hash = b.hash) => a = b
ServedChoices == {T \in SubsetsUpTo(ServedRows, MaxServedRows) : KeyUnique(T)}
ReadKeys == {None, SAb, S12}
ReadHashes == {None, S12}

Called(site, lang, key, addr, result, consulted) ==
    call' = [site |-> site, lang |-> lang, key |-> key, addr |-> addr,
             result |-> result, consulted |-> consulted]

AddrOfKey(raw_key) == IF Truthy(raw_key) THEN hash_text_key(raw_key) ELSE None
AddrOfHash(h) == IF Truthy(h) THEN h ELSE None

ReadInit ==
    /\ served \in ServedChoices
    /\ call = NoCall
    /\ xxhashAvail \in BOOLEAN
    /\ xxhsumAvail \in BOOLEAN
    /\ ClosureIdle
    /\ BuildIdle
    /\ TemplateIdle /\ StatIdle /\ LaterIdle

ReadFrame == UNCHANGED <<served, envVars, closureVars, buildVars, templateVars, statVars, laterVars>>

\* One request is followed from each database: the handlers below only read,
\* so the outcome of a request does not depend on the requests before it.

\* _api_avatar_detail, rank items: name
AvatarDetailRankName ==
    /\ call = NoCall
    /\ \E lang \in ReadLangs, name_raw \in ReadKeys :
          Called("rank_name", lang, name_raw, AddrOfKey(name_raw),
                 resolve_text_from_key(served, lang, name_raw),
                 QueriedFromKey(lang, name_raw))
    /\ ReadFrame

\* _api_avatar_detail, rank items: the description template
AvatarDetailRankDesc ==
    /\ call = NoCall
    /\ \E lang \in ReadLangs, desc_raw \in ReadKeys :
          LET desc_template == resolve_text_from_key(served, lang, desc_raw)
          IN  Called("rank_desc", lang, desc_raw, AddrOfKey(desc_raw),
                     IF Truthy(desc_template) THEN desc_template ELSE None,
                     QueriedFromKey(lang, desc_raw))
    /\ ReadFrame

\* _api_avatar_detail, rank items: one key of rank_ability_json
AvatarDetailRankAbility ==
    /\ call = NoCall
    /\ \E lang \in ReadLangs, key \in ReadKeys :
          Called("rank_ability", lang, key, AddrOfKey(key),
                 resolve_text_from_key(served, lang, key),
                 QueriedFromKey(lang, key))
    /\ ReadFrame

\* _api_avatar_detail, personal stories: the content of one story
AvatarDetailStory ==
    /\ call = NoCall
    /\ \E lang \in ReadLangs, story_hash \in ReadHashes :
          LET text_map == resolve_hash_texts(served, lang, {story_hash})
          IN  Called("story", lang, story_hash, AddrOfHash(story_hash),
                     IF Truthy(story_hash) THEN MapGet(text_map, story_hash) ELSE None,
                     IF Truthy(story_hash) THEN <<lang>> ELSE <<>>)
    /\ ReadFrame

\* build_light_cone_detail: the skill name of one level
LightConeDetailSkillName ==
    /\ call = NoCall
    /\ \E lang \in ReadLangs, name_hash \in ReadHashes :
          LET text_map == resolve_hash_texts(served, lang, {name_hash})
          IN  Called("light_cone", lang, name_hash, AddrOfHash(name_hash),
                     IF Truthy(name_hash) THEN MapGet(text_map, name_hash) ELSE None,
                     IF Truthy(name_hash) THEN <<lang>> ELSE <<>>)
    /\ ReadFrame

\* _api_monster_detail: a hash field resolved by resolve_hash
MonsterDetailHash ==
    /\ call = NoCall
    /\ \E lang \in ReadLangs, h \in ReadHashes :
          Called("monster_hash", lang, h, AddrOfHash(h),
                 resolve_hash(served, lang, h), QueriedByResolveHash(lang, h))
    /\ ReadFrame

\* _api_monster_detail: one ability key,  text or key
MonsterDetailAbility ==
    /\ call = NoCall
    /\ \E lang \in ReadLangs, key \in ReadKeys \ {None} :
          Called("monster_ability", lang, key, AddrOfKey(key),
                 PyOr(resolve_text_with_fallback(served, lang, key, key), key),
                 QueriedWithFallback(served, lang, key))
    /\ ReadFrame

\* a call of resolve_text_with_fallback with the fallback value the caller chose
ReadFallbacks == {None, <<"f", "b">>}
ResolveTextWithFallback ==
    /\ call = NoCall
    /\ \E lang \in ReadLangs, key \in ReadKeys, fallback \in ReadFallbacks :
          call' = [site |-> "with_fallback", lang |-> lang, key |-> key,
                   addr |-> AddrOfKey(key),
                   result |-> resolve_text_with_fallback(served, lang, key, fallback),
                   consulted |-> QueriedWithFallback(served, lang, key),
                   fallback |-> fallback]
    /\ ReadFrame

ReadNext ==
    \/ ResolveTextWithFallback
    \/ AvatarDetailRankName
    \/ AvatarDetailRankDesc
    \/ AvatarDetailRankAbility
    \/ AvatarDetailStory
    \/ LightConeDetailSkillName
    \/ MonsterDetailHash
    \/ MonsterDetailAbility

SpecRead == ReadInit /\ [][ReadNext]_vars

-----------------------------------------------------------------------------
(* Claims about the read path *)

Range(f) == {f[i] : i \in DOMAIN f}

\* the dereference addressed a text for which the requested language has no row
MissingForLang ==
    /\ call.site # "none"
    /\ call.addr # None
    /\ ~\E r \in served : r.lang = call.lang /\ r.hash = call.addr

\* C4: at every dereference site, a key or hash whose address has no text_map
\* row for the requested language yields absent only after the fallback
\* languages CHS and EN have been queried (no site raises: every operator
\* above is total).
C4_MissingTextFallsBack ==
    (MissingForLang /\ call.result = None)
        => \A l \in {"CHS", "EN"} \ {call.lang} : l \in Range(call.consulted)

\* the languages of a call with fallback, in the order the code tries them
FallbackChain(lang) ==
    <<lang>> \o (IF lang # "CHS" THEN <<"CHS">> ELSE <<>>)
             \o (IF lang # "EN" THEN <<"EN">> ELSE <<>>)
HasRow(l, addr) == \E r \in served : r.lang = l /\ r.hash = addr
HasText(l, addr) == \E r \in served : r.lang = l /\ r.hash = addr /\ r.text # <<>>
FallbackCall == call.site = "with_fallback" /\ call.addr # None

\* C11: resolve_text_with_fallback returns the text of the requested
\* language whenever a row exists for it, whatever the text is (the empty
\* string included), and then consults no fallback language.
C11_RequestedRowWins ==
    (FallbackCall /\ HasRow(call.lang, call.addr))
        => /\ call.result = LookupText(served, call.lang, call.addr)
           /\ call.consulted = <<call.lang>>

\* C11 (amended): the result is the text of the first language of the chain
\* requested, CHS, EN that has a row with a non-empty text, and the caller's
\* fallback value when none has; the languages after that one are not
\* queried, and nothing is queried for a key without an address.
C11_FirstNonEmptyTextWins ==
    /\ FallbackCall =>
          LET chain == FallbackChain(call.lang)
              hits == {i \in DOMAIN chain : HasText(chain[i], call.addr)}
          IN  IF hits = {}
              THEN call.result = call.fallback /\ call.consulted = chain
              ELSE LET first == CHOOSE i \in hits : \A j \in hits : i <= j
                   IN  /\ call.result = LookupText(served, chain[first], call.addr)
                       /\ call.consulted = SubSeq(chain, 1, first)
    /\ (call.site = "with_fallback" /\ call.addr = None)
          => call.result = call.fallback /\ call.consulted = <<>>

\* the requested language has a row with the empty text and CHS has a text
C11_Witness ==
    /\ FallbackCall /\ call.lang = "JP"
    /\ HasRow("JP", call.addr) /\ ~HasText("JP", call.addr)
    /\ HasText("CHS", call.addr)
    /\ call.result = <<"c">>

-----------------------------------------------------------------------------
(* build_db.py: documents, conversions and the store *)

\* json.load results: JNull, JInt, JStr above; objects are records with
\* k = "dict" and one field per key; arrays and text-map documents:
JList(items) == [k |-> "list", items |-> items]

\* item.get(name)
Get(item, name) == IF name \in DOMAIN item THEN item[name] ELSE JNull

\* int(str) for a numeral with an optional sign
RECURSIVE StrToNat(_)
StrToNat(s) ==
    IF s = <<>> THEN 0
    ELSE 10 * StrToNat(SubSeq(s, 1, Len(s) - 1))
         + (CHOOSE d \in 0..9 : DigitChar(d) = s[Len(s)])

\* to_int: an integer column value (JInt) or NULL (JNull)
to_int(value) ==
    IF value.k = "int" THEN value
    ELSE IF value.k = "str"
    THEN LET t == Strip(value.s)
         IN  IF IsDigits(t) THEN JInt(StrToNat(t))
             ELSE IF t # <<>> /\ Head(t) = "-" /\ IsDigits(Tail(t))
                  THEN JInt(0 - StrToNat(Tail(t)))
             ELSE JNull
    ELSE JNull

\* item.get(name) if isinstance(item.get(name), str) else None
StrOrNone(value) == IF value.k = "str" THEN value.s ELSE None

\* a file of the resources: st is "ok" (parses), "unparsable" or "missing"
Doc(st, data) == [st |-> st, data |-> data]
\* load_json raises FileNotFoundError / JSONDecodeError
LoadRaises(doc) == doc.st # "ok"
IsList(data) == data.k = "list"
\* the dict rows of a list document, in order
RECURSIVE DictItems(_)
DictItems(items) ==
    IF items = <<>> THEN <<>>
    ELSE IF Head(items).k = "dict" THEN <<Head(items)>> \o DictItems(Tail(items))
    ELSE DictItems(Tail(items))

\* ---- sqlite tables: sequences of rows in rowid order ----

SameKey(a, b, key) == \A c \in key : a[c] = b[c]
HasKey(tbl, row, key) == \E i \in DOMAIN tbl : SameKey(tbl[i], row, key)

\* INSERT ... ON CONFLICT(key) DO UPDATE SET c = excluded.c  for c in cols
Upsert(tbl, row, key, cols) ==
    IF HasKey(tbl, row, key)
    THEN [i \in DOMAIN tbl |->
            IF SameKey(tbl[i], row, key)
            THEN [c \in DOMAIN tbl[i] |-> IF c \in cols THEN row[c] ELSE tbl[i][c]]
            ELSE tbl[i]]
    ELSE Append(tbl, row)

\* INSERT with no conflict clause on a table whose key is not among the values
InsertAppend(tbl, row, key) == Append(tbl, row)

\* INSERT ... ON CONFLICT(key) DO NOTHING
InsertOrIgnore(tbl, row, key) == IF HasKey(tbl, row, key) THEN tbl ELSE Append(tbl, row)

\* executemany over the rows, in order
RECURSIVE UpsertMany(_, _, _, _)
UpsertMany(tbl, rows, key, cols) ==
    IF rows = <<>> THEN tbl
    ELSE UpsertMany(Upsert(tbl, Head(rows), key, cols), Tail(rows), key, cols)

RECURSIVE InsertOrIgnoreMany(_, _, _)
InsertOrIgnoreMany(tbl, rows, key) ==
    IF rows = <<>> THEN tbl
    ELSE InsertOrIgnoreMany(InsertOrIgnore(tbl, Head(rows), key), Tail(rows), key)

\* INSERT INTO story_reference(...): id INTEGER PRIMARY KEY AUTOINCREMENT
RECURSIVE InsertAutoMany(_, _)
InsertAutoMany(tbl, rows) ==
    IF rows = <<>> THEN tbl
    ELSE InsertAutoMany(
            Append(tbl, [c \in DOMAIN Head(rows) \cup {"id"} |->
                            IF c = "id" THEN Len(tbl) + 1 ELSE Head(rows)[c]]),
            Tail(rows))

\* DELETE FROM x_fts; INSERT INTO x_fts(rowid, ...): without FTS5 the table
\* does not exist and the OperationalError is swallowed; a repeated rowid
\* raises IntegrityError, which is not caught.
FtsRaises(fts_rows) ==
    \E i, j \in DOMAIN fts_rows : i # j /\ fts_rows[i].rowid = fts_rows[j].rowid
RebuildFts(fts_rows, fts5) == IF fts5 /\ ~FtsRaises(fts_rows) THEN fts_rows ELSE <<>>

EmptyStore ==
    [text_map |-> <<>>, talk_sentence |-> <<>>, talk_sentence_multi_voice |-> <<>>,
     talk_sentence_fts |-> <<>>, story_reference |-> <<>>, main_mission |-> <<>>,
     sub_mission |-> <<>>, mission_pack_link |-> <<>>, mission_fts |-> <<>>,
     avatar |-> <<>>, avatar_promotion |-> <<>>, avatar_skill |-> <<>>,
     avatar_rank |-> <<>>, avatar_fts |-> <<>>, item |-> <<>>, item_fts |-> <<>>,
     meta |-> <<>>]

\* the result of an ingestion step: the connection's tables and whether the
\* step raised
Ok(conn) == [conn |-> conn, raised |-> FALSE]
Raised(conn) == [conn |-> conn, raised |-> TRUE]

\* ---- text maps ----

\* a text-map document: a JSON object, kept as its (key, value) pairs in order
JMap(entries) == [k |-> "map", entries |-> entries]

\* v if isinstance(v, str) else json.dumps(v)
TextOf(v) == IF v.k = "str" THEN v.s
             ELSE IF v.k = "int" THEN IntToStr(v.n)
             ELSE <<"n", "u", "l", "l">>

\* merged[str(k)] = ...  on a dict kept as pairs in insertion order
DictPut(d, key, v) ==
    IF \E i \in DOMAIN d : d[i].k = key
    THEN [i \in DOMAIN d |-> IF d[i].k = key THEN [k |-> key, v |-> v] ELSE d[i]]
    ELSE Append(d, [k |-> key, v |-> v])

RECURSIVE DictUpdate(_, _)
DictUpdate(d, entries) ==
    IF entries = <<>> THEN d
    ELSE DictUpdate(DictPut(d, Head(entries).k, TextOf(Head(entries).v)), Tail(entries))

DictGet(d, key) ==
    IF \E i \in DOMAIN d : d[i].k = key
    THEN d[CHOOSE i \in DOMAIN d : d[i].k = key].v
    ELSE None

TextMapFiles(lang) == <<"TextMapMain" \o lang, "TextMap" \o lang>>

\* the merged dict of one language; files that do not exist or do not hold an
\* object are skipped
MergedTextMap(res, lang) ==
    LET names == TextMapFiles(lang)
        step(d, name) ==
            IF res[name].st = "missing" \/ res[name].data.k # "map" THEN d
            ELSE DictUpdate(d, res[name].data.entries)
    IN  step(step(<<>>, names[1]), names[2])

BuildLangs == <<"CHS", "EN">>

\* load_text_maps raises when a text-map file exists and does not parse
LoadTextMapsRaises(res) ==
    \E i \in DOMAIN BuildLangs : \E j \in 1..2 :
        res[TextMapFiles(BuildLangs[i])[j]].st = "unparsable"

load_text_maps(res) == [lang \in {BuildLangs[i] : i \in DOMAIN BuildLangs} |->
                           MergedTextMap(res, lang)]

\* resolve(lang_maps, lang, hash_key)
resolve(lang_maps, lang, hash_key) ==
    IF ~Truthy(hash_key) THEN None
    ELSE IF lang \in DOMAIN lang_maps THEN DictGet(lang_maps[lang], hash_key)
    ELSE None

TextMapRowsOf(lang, mapping) ==
    [i \in DOMAIN mapping |-> [lang |-> lang, hash |-> mapping[i].k, text |-> mapping[i].v]]

\* the rows insert_text_map builds: every language's pairs, in order
TextMapRows(lang_maps) ==
    TextMapRowsOf(BuildLangs[1], lang_maps[BuildLangs[1]])
        \o TextMapRowsOf(BuildLangs[2], lang_maps[BuildLangs[2]])

insert_text_map_ignoring(conn, lang_maps) ==
    [conn EXCEPT !.text_map = InsertOrIgnoreMany(@, TextMapRows(lang_maps), {"lang", "hash"})]

insert_text_map(conn, lang_maps) ==
    [conn EXCEPT !.text_map = UpsertMany(@, TextMapRows(lang_maps), {"lang", "hash"}, {"text"})]

\* ---- table exports (a few representative columns of each table are kept;
\*      the SQL treats the remaining columns of a table like these) ----

\* the dict items of a list document; no items when the document is no list
ListItems(data) == IF IsList(data) THEN DictItems(data.items) ELSE <<>>

RECURSIVE Concat(_)
Concat(ss) == IF ss = <<>> THEN <<>> ELSE Head(ss) \o Concat(Tail(ss))

\* x or ""
OrEmpty(s) == IF Truthy(s) THEN s ELSE <<>>

TalkCols == {"voice_id", "speaker_hash", "text_hash", "text_chs", "text_en"}

insert_talk(conn, res, lang_maps, fts5) ==
    IF LoadRaises(res["TalkSentenceConfig"]) THEN Raised(conn)
    ELSE
    LET keep(item) == to_int(Get(item, "TalkSentenceID")) # JNull
        row(item) ==
            LET text_hash == as_hash(Get(item, "TalkSentenceText"))
            IN  [talk_sentence_id |-> to_int(Get(item, "TalkSentenceID")),
                 voice_id |-> to_int(Get(item, "VoiceID")),
                 speaker_hash |-> as_hash(Get(item, "TextmapTalkSentenceName")),
                 text_hash |-> text_hash,
                 text_chs |-> resolve(lang_maps, "CHS", text_hash),
                 text_en |-> resolve(lang_maps, "EN", text_hash)]
        talk_rows ==
            (LET kept == SelectSeq(ListItems(res["TalkSentenceConfig"].data), keep)
            IN [n \in DOMAIN kept |-> row(kept[n])])
        fts_rows == [i \in DOMAIN talk_rows |->
                        [rowid |-> talk_rows[i].talk_sentence_id,
                         text |-> OrEmpty(talk_rows[i].text_chs)]]
        conn1 == [conn EXCEPT !.talk_sentence =
                     UpsertMany(@, talk_rows, {"talk_sentence_id"}, TalkCols)]
    IN  IF LoadRaises(res["TalkSentenceMultiVoice"]) THEN Raised(conn1)
        ELSE
        LET mvkeep(item) == /\ to_int(Get(item, "TalkSentenceID")) # JNull
                            /\ Get(item, "VoiceIDList").k = "list"
            mvrows(item) ==
                LET voices == Get(item, "VoiceIDList").items
                    idx == SelectSeq([i \in DOMAIN voices |-> i],
                                     LAMBDA i : to_int(voices[i]) # JNull)
                IN  [j \in DOMAIN idx |->
                        [talk_sentence_id |-> to_int(Get(item, "TalkSentenceID")),
                         seq |-> idx[j] - 1,
                         voice_id |-> to_int(voices[idx[j]])]]
            mv_rows ==
                Concat((LET kept == SelectSeq(ListItems(res["TalkSentenceMultiVoice"].data), mvkeep)
                IN [n \in DOMAIN kept |-> mvrows(kept[n])]))
            conn2 == [conn1 EXCEPT !.talk_sentence_multi_voice =
                         InsertOrIgnoreMany(@, mv_rows,
                                            {"talk_sentence_id", "seq", "voice_id"})]
            conn3 == [conn2 EXCEPT !.talk_sentence_fts = RebuildFts(fts_rows, fts5)]
        IN  IF fts5 /\ FtsRaises(fts_rows) THEN Raised(conn3) ELSE Ok(conn3)

MainMissionCols == {"mission_type", "mission_pack", "name_hash", "name_chs", "name_en"}
SubMissionCols == {"main_mission_guess", "target_hash", "target_chs", "target_en"}

\* sid // 100 (floor division)
FloorDiv100(n) == n \div 100

insert_missions(conn, res, lang_maps, fts5) ==
    IF LoadRaises(res["MainMission"]) THEN Raised(conn)
    ELSE
    LET keep(item) == to_int(Get(item, "MainMissionID")) # JNull
        row(item) ==
            LET name_hash == as_hash(Get(item, "Name"))
            IN  [main_mission_id |-> to_int(Get(item, "MainMissionID")),
                 mission_type |-> StrOrNone(Get(item, "Type")),
                 mission_pack |-> to_int(Get(item, "MissionPack")),
                 name_hash |-> name_hash,
                 name_chs |-> resolve(lang_maps, "CHS", name_hash),
                 name_en |-> resolve(lang_maps, "EN", name_hash)]
        main_rows ==
            (LET kept == SelectSeq(ListItems(res["MainMission"].data), keep)
            IN [n \in DOMAIN kept |-> row(kept[n])])
        mission_fts == [i \in DOMAIN main_rows |->
                           [rowid |-> main_rows[i].main_mission_id,
                            text |-> OrEmpty(main_rows[i].name_chs)]]
        conn1 == [conn EXCEPT !.main_mission =
                     UpsertMany(@, main_rows, {"main_mission_id"}, MainMissionCols)]
    IN  IF LoadRaises(res["SubMission"]) THEN Raised(conn1)
        ELSE
        LET skeep(item) == to_int(Get(item, "SubMissionID")) # JNull
            srow(item) ==
                LET sid == to_int(Get(item, "SubMissionID"))
                    target_hash == as_hash(Get(item, "TargetText"))
                IN  [sub_mission_id |-> sid,
                     main_mission_guess |-> JInt(FloorDiv100(sid.n)),
                     target_hash |-> target_hash,
                     target_chs |-> resolve(lang_maps, "CHS", target_hash),
                     target_en |-> resolve(lang_maps, "EN", target_hash)]
            sub_rows ==
                (LET kept == SelectSeq(ListItems(res["SubMission"].data), skeep)
                IN [n \in DOMAIN kept |-> srow(kept[n])])
            conn2 == [conn1 EXCEPT !.sub_mission =
                         UpsertMany(@, sub_rows, {"sub_mission_id"}, SubMissionCols)]
        IN  IF LoadRaises(res["MainMissionPack"]) THEN Raised(conn2)
            ELSE
            LET pkeep(item) == /\ to_int(Get(item, "MissionPack")) # JNull
                               /\ Get(item, "MainMissionIdList").k = "list"
                prows(item) ==
                    LET lst == SelectSeq(Get(item, "MainMissionIdList").items,
                                         LAMBDA raw : to_int(raw) # JNull)
                    IN  [j \in DOMAIN lst |->
                            [mission_pack |-> to_int(Get(item, "MissionPack")),
                             main_mission_id |-> to_int(lst[j])]]
                pack_rows ==
                    Concat((LET kept == SelectSeq(ListItems(res["MainMissionPack"].data), pkeep)
                    IN [n \in DOMAIN kept |-> prows(kept[n])]))
                conn3 == [conn2 EXCEPT !.mission_pack_link =
                             InsertOrIgnoreMany(@, pack_rows,
                                                {"mission_pack", "main_mission_id"})]
                conn4 == [conn3 EXCEPT !.mission_fts = RebuildFts(mission_fts, fts5)]
            IN  IF fts5 /\ FtsRaises(mission_fts) THEN Raised(conn4) ELSE Ok(conn4)

AvatarCols == {"name_hash", "name_chs", "name_en"}
PromotionCols == {"max_level"}
SkillCols == {"max_level", "name_hash", "name_chs", "name_en"}
RankCols == {"rank", "trigger_hash", "name_raw", "desc_raw"}

\* to_int(x) or 0
IntOrZero(v) == IF v = JNull THEN JInt(0) ELSE v

insert_avatars(conn, res, lang_maps, fts5) ==
    IF LoadRaises(res["AvatarConfig"]) THEN Raised(conn)
    ELSE
    LET keep(item) == to_int(Get(item, "AvatarID")) # JNull
        row(item) ==
            LET name_hash == as_hash(Get(item, "AvatarName"))
            IN  [avatar_id |-> to_int(Get(item, "AvatarID")),
                 name_hash |-> name_hash,
                 name_chs |-> resolve(lang_maps, "CHS", name_hash),
                 name_en |-> resolve(lang_maps, "EN", name_hash)]
        avatar_rows ==
            (LET kept == SelectSeq(ListItems(res["AvatarConfig"].data), keep)
            IN [n \in DOMAIN kept |-> row(kept[n])])
        avatar_fts == [i \in DOMAIN avatar_rows |->
                          [rowid |-> avatar_rows[i].avatar_id,
                           text |-> OrEmpty(avatar_rows[i].name_chs)]]
        conn1 == [conn EXCEPT !.avatar =
                     UpsertMany(@, avatar_rows, {"avatar_id"}, AvatarCols)]
    IN  IF LoadRaises(res["AvatarPromotionConfig"]) THEN Raised(conn1)
        ELSE
        LET prow(item) == [avatar_id |-> to_int(Get(item, "AvatarID")),
                           promotion |-> IntOrZero(to_int(Get(item, "Promotion"))),
                           max_level |-> to_int(Get(item, "MaxLevel"))]
            prom_rows ==
                (LET kept == SelectSeq(ListItems(res["AvatarPromotionConfig"].data), keep)
                IN [n \in DOMAIN kept |-> prow(kept[n])])
            conn2 == [conn1 EXCEPT !.avatar_promotion =
                         UpsertMany(@, prom_rows, {"avatar_id", "promotion"}, PromotionCols)]
        IN  IF LoadRaises(res["AvatarSkillConfig"]) THEN Raised(conn2)
            ELSE
            LET skeep(item) == /\ to_int(Get(item, "SkillID")) # JNull
                               /\ to_int(Get(item, "Level")) # JNull
                srow(item) ==
                    LET name_hash == as_hash(Get(item, "SkillName"))
                    IN  [skill_id |-> to_int(Get(item, "SkillID")),
                         level |-> to_int(Get(item, "Level")),
                         max_level |-> to_int(Get(item, "MaxLevel")),
                         name_hash |-> name_hash,
                         name_chs |-> resolve(lang_maps, "CHS", name_hash),
                         name_en |-> resolve(lang_maps, "EN", name_hash)]
                skill_rows ==
                    (LET kept == SelectSeq(ListItems(res["AvatarSkillConfig"].data), skeep)
                    IN [n \in DOMAIN kept |-> srow(kept[n])])
                conn3 == [conn2 EXCEPT !.avatar_skill =
                             UpsertMany(@, skill_rows, {"skill_id", "level"}, SkillCols)]
            IN  IF LoadRaises(res["AvatarRankConfig"]) THEN Raised(conn3)
                ELSE
                LET rkeep(item) == to_int(Get(item, "RankID")) # JNull
                    rrow(item) == [rank_id |-> to_int(Get(item, "RankID")),
                                   rank |-> to_int(Get(item, "Rank")),
                                   trigger_hash |-> as_hash(Get(item, "Trigger")),
                                   name_raw |-> StrOrNone(Get(item, "Name")),
                                   desc_raw |-> StrOrNone(Get(item, "Desc"))]
                    rank_rows ==
                        (LET kept == SelectSeq(ListItems(res["AvatarRankConfig"].data), rkeep)
                        IN [n \in DOMAIN kept |-> rrow(kept[n])])
                    conn4 == [conn3 EXCEPT !.avatar_rank =
                                 UpsertMany(@, rank_rows, {"rank_id"}, RankCols)]
                    conn5 == [conn4 EXCEPT !.avatar_fts = RebuildFts(avatar_fts, fts5)]
                IN  IF fts5 /\ FtsRaises(avatar_fts) THEN Raised(conn5) ELSE Ok(conn5)

\* the item files found by sorted(excel.glob("ItemConfig*.json"))
ItemFileNames == <<"ItemConfig", "ItemConfigAvatar">>

ItemCols == {"source_file", "rarity", "purpose_type", "purpose_text_chs", "item_name_hash",
             "item_name_chs", "item_name_en", "item_desc_chs", "item_bg_desc_chs", "pile_limit"}

\* ItemCols without source_file
ItemColsButSource == ItemCols \ {"source_file"}

\* the columns insert_items updates on a conflict
ItemUpdateCols == ItemCols

\* the row insert_items derives from one definition of the file named path_name
ItemRow(item, path_name, purpose_map, lang_maps) ==
    LET purpose_type == to_int(Get(item, "PurposeType"))
        name_hash == as_hash(Get(item, "ItemName"))
    IN  [item_id |-> to_int(Get(item, "ID")),
         source_file |-> path_name,
         rarity |-> StrOrNone(Get(item, "Rarity")),
         purpose_type |-> purpose_type,
         purpose_text_chs |-> IF purpose_type # JNull THEN DictGet(purpose_map, purpose_type)
                              ELSE None,
         item_name_hash |-> name_hash,
         item_name_chs |-> resolve(lang_maps, "CHS", name_hash),
         item_name_en |-> resolve(lang_maps, "EN", name_hash),
         item_desc_chs |-> resolve(lang_maps, "CHS", as_hash(Get(item, "ItemDesc"))),
         item_bg_desc_chs |-> resolve(lang_maps, "CHS", as_hash(Get(item, "ItemBGDesc"))),
         pile_limit |-> to_int(Get(item, "PileLimit"))]

\* purpose_map[pid] = resolve(lang_maps, "CHS", h), later rows replacing earlier ones
RECURSIVE PurposeMap(_, _, _)
PurposeMap(d, items, lang_maps) ==
    IF items = <<>> THEN d
    ELSE LET pid == to_int(Get(Head(items), "ID"))
             h == as_hash(Get(Head(items), "PurposeText"))
         IN  PurposeMap(IF pid = JNull THEN d
                        ELSE DictPut(d, pid, resolve(lang_maps, "CHS", h)),
                        Tail(items), lang_maps)

\* (name_chs or "", desc_chs or bg_chs or "")
ItemFtsEntry(row) ==
    [name |-> OrEmpty(row.item_name_chs),
     description |-> OrEmpty(PyOr(row.item_desc_chs, row.item_bg_desc_chs))]

\* fts_by_id[item_id] = (name_chs or "", desc_chs or bg_chs or "")
RECURSIVE FtsById(_, _)
FtsById(d, rows) ==
    IF rows = <<>> THEN d
    ELSE FtsById(DictPut(d, Head(rows).item_id, ItemFtsEntry(Head(rows))), Tail(rows))

insert_items(conn, res, lang_maps, fts5) ==
    LET purpose == res["ItemPurpose"]
        names == SelectSeq(ItemFileNames, LAMBDA n : res[n].st # "missing")
    IN  IF purpose.st = "unparsable" THEN Raised(conn)
        ELSE IF \E i \in DOMAIN names : res[names[i]].st = "unparsable" THEN Raised(conn)
        ELSE
        LET purpose_map ==
                IF purpose.st = "ok" /\ IsList(purpose.data)
                THEN PurposeMap(<<>>, DictItems(purpose.data.items), lang_maps)
                ELSE <<>>
            keep(item) == to_int(Get(item, "ID")) # JNull
            rows == Concat([i \in DOMAIN names |->
                       LET kept == SelectSeq(ListItems(res[names[i]].data), keep)
                       IN  [n \in DOMAIN kept |->
                               ItemRow(kept[n], names[i], purpose_map, lang_maps)]])
            fts_by_id == FtsById(<<>>, rows)
            fts_rows == [i \in DOMAIN fts_by_id |->
                            [rowid |-> fts_by_id[i].k, text |-> fts_by_id[i].v.name,
                             description |-> fts_by_id[i].v.description]]
            conn1 == [conn EXCEPT !.item = UpsertMany(@, rows, {"item_id"}, ItemUpdateCols)]
        IN  Ok([conn1 EXCEPT !.item_fts = RebuildFts(fts_rows, fts5)])

\* ---- narrative documents ----

\* an object of a narrative document: its (name, value) pairs in document order
JNode(fields) == [k |-> "node", fields |-> fields]

GetF(node, name) ==
    IF node.k = "node" /\ \E i \in DOMAIN node.fields : node.fields[i].name = name
    THEN node.fields[CHOOSE i \in DOMAIN node.fields : node.fields[i].name = name].value
    ELSE JNull

as_custom(value) ==
    IF value.k = "str" THEN value.s
    ELSE IF value.k = "node" /\ GetF(value, "Value").k = "str" THEN GetF(value, "Value").s
    ELSE None

\* source_group over the parts of the relative path
source_group(parts) ==
    IF Len(parts) >= 2 /\ parts[1] = "Story" THEN <<"Story", parts[2]>>
    ELSE IF Len(parts) >= 3 /\ parts[1] = "Config" /\ parts[2] = "Level"
         THEN <<"Config", "Level", parts[3]>>
    ELSE IF parts # <<>> THEN <<parts[1]>> ELSE <<"Unknown">>

TalkSentencePrefix == <<"T", "a", "l", "k", "S", "e", "n", "t", "e", "n", "c", "e", "_">>

\* positions where TALK_SENTENCE_RE matches in s
TalkSentenceMatches(s) ==
    {i \in 1..Len(s) :
        /\ i + Len(TalkSentencePrefix) <= Len(s)
        /\ SubSeq(s, i, i + Len(TalkSentencePrefix) - 1) = TalkSentencePrefix
        /\ s[i + Len(TalkSentencePrefix)] \in Digits}

RECURSIVE DigitRun(_)
DigitRun(s) == IF s # <<>> /\ Head(s) \in Digits THEN <<Head(s)>> \o DigitRun(Tail(s)) ELSE <<>>

\* int(TALK_SENTENCE_RE.search(s).group(1))
TalkSentenceSearch(s) ==
    LET i == CHOOSE m \in TalkSentenceMatches(s) : \A n \in TalkSentenceMatches(s) : m <= n
    IN  StrToNat(DigitRun(SubSeq(s, i + Len(TalkSentencePrefix), Len(s))))

\* the tag of an object that has no string $type and none to inherit
TaskTypeOwnOnly(node, inherited_task_type) ==
    IF GetF(node, "$type").k = "str" THEN GetF(node, "$type").s ELSE None

\* node.get("$type") if isinstance(node.get("$type"), str) else inherited_task_type
TaskType(node, inherited_task_type) ==
    IF GetF(node, "$type").k = "str" THEN GetF(node, "$type").s ELSE inherited_task_type

\* the strings searched in the order custom, trigger
DerivedTalkIdCustomFirst(trigger, custom) ==
    IF Truthy(custom) /\ TalkSentenceMatches(custom) # {}
    THEN JInt(TalkSentenceSearch(custom))
    ELSE IF Truthy(trigger) /\ TalkSentenceMatches(trigger) # {}
         THEN JInt(TalkSentenceSearch(trigger))
    ELSE JNull

\* for candidate in (trigger, custom): the id of the first candidate that is
\* not empty and has a match
DerivedTalkId(trigger, custom) ==
    IF Truthy(trigger) /\ TalkSentenceMatches(trigger) # {}
    THEN JInt(TalkSentenceSearch(trigger))
    ELSE IF Truthy(custom) /\ TalkSentenceMatches(custom) # {}
         THEN JInt(TalkSentenceSearch(custom))
    ELSE JNull

\* a test by the truth value of the ids, for which 0 is false
AnyTruthy(talk_id, timeline, perf_type, perf_id, trigger, custom) ==
    \/ (talk_id # JNull /\ talk_id.n # 0) \/ Truthy(timeline) \/ Truthy(perf_type)
    \/ (perf_id # JNull /\ perf_id.n # 0) \/ Truthy(trigger) \/ Truthy(custom)

\* any((talk_id is not None, timeline, perf_type, perf_id is not None, trigger, custom))
AnyPresent(talk_id, timeline, perf_type, perf_id, trigger, custom) ==
    \/ talk_id # JNull \/ Truthy(timeline) \/ Truthy(perf_type)
    \/ perf_id # JNull \/ Truthy(trigger) \/ Truthy(custom)

\* every key taken as new
NotSeenEver(key, seen) == TRUE

\* key not in seen
NotSeen(key, seen) == key \notin seen

RECURSIVE walk(_, _, _, _, _)
RECURSIVE WalkFields(_, _, _, _, _)
RECURSIVE WalkList(_, _, _, _, _, _)

walk(node, rel, json_path, inherited_task_type, acc) ==
    IF node.k = "node"
    THEN LET task_type == TaskType(node, inherited_task_type)
             own_id == to_int(GetF(node, "TalkSentenceID"))
             trigger == as_custom(GetF(node, "TriggerCustomString"))
             custom == as_custom(GetF(node, "CustomString"))
             talk_id ==
                 IF own_id # JNull THEN own_id ELSE DerivedTalkId(trigger, custom)
             timeline == StrOrNone(GetF(node, "TimelineName"))
             perf_type == StrOrNone(GetF(node, "PerformanceType"))
             perf_id == to_int(GetF(node, "PerformanceID"))
             key == [json_path |-> json_path, task_type |-> task_type,
                     talk_sentence_id |-> talk_id, timeline_name |-> timeline,
                     performance_type |-> perf_type, performance_id |-> perf_id,
                     trigger_custom_string |-> trigger, custom_string |-> custom]
             row == [c \in DOMAIN key \cup {"source_path", "source_group"} |->
                        IF c = "source_path" THEN rel
                        ELSE IF c = "source_group" THEN source_group(rel)
                        ELSE key[c]]
             any == AnyPresent(talk_id, timeline, perf_type, perf_id, trigger, custom)
             acc1 == IF any /\ NotSeen(key, acc.seen)
                     THEN [rows |-> Append(acc.rows, row), seen |-> acc.seen \cup {key}]
                     ELSE acc
         IN  WalkFields(node.fields, rel, json_path, task_type, acc1)
    ELSE IF node.k = "list"
    THEN WalkList(node.items, 0, rel, json_path, inherited_task_type, acc)
    ELSE acc

WalkFields(fields, rel, json_path, task_type, acc) ==
    IF fields = <<>> THEN acc
    ELSE WalkFields(Tail(fields), rel, json_path, task_type,
                    walk(Head(fields).value, rel, json_path \o "." \o Head(fields).name,
                         task_type, acc))

WalkList(items, i, rel, json_path, inherited_task_type, acc) ==
    IF items = <<>> THEN acc
    ELSE WalkList(Tail(items), i + 1, rel, json_path, inherited_task_type,
                  walk(Head(items), rel, json_path \o "[" \o ToString(i) \o "]",
                       inherited_task_type, acc))

extract_reference_rows(rel_path, data) ==
    walk(data, rel_path, "$", None, [rows |-> <<>>, seen |-> {}]).rows

\* the narrative files found by iter_reference_files, as paths relative to
\* the resources root
StoryFiles == <<<<"Story", "M1", "a.json">>, <<"Story", "M1", "b.json">>>>
StoryFileName(parts) == parts[Len(parts)]

\* len(batch) >= 10000
BatchLimit == 10000

\* list(iter_reference_files(...)): the files that exist
ReferenceFiles(res) ==
    SelectSeq(StoryFiles, LAMBDA parts : res[StoryFileName(parts)].st # "missing")

\* a loop that loses the pending batch at a file that does not load
StoryStepForgetting(st, rel, doc, limit) ==
    IF LoadRaises(doc) THEN [st EXCEPT !.parse_errors = @ + 1, !.batch = <<>>]
    ELSE LET rows == extract_reference_rows(rel, doc.data)
             batch == st.batch \o rows
             flush == Len(batch) >= limit
         IN  [st EXCEPT !.batch = IF flush THEN <<>> ELSE batch,
                        !.total_rows = @ + Len(rows),
                        !.table = IF flush THEN InsertAutoMany(@, batch) ELSE @]

\* a loop that clears the batch at the threshold without writing it
StoryStepDropping(st, rel, doc, limit) ==
    IF LoadRaises(doc) THEN [st EXCEPT !.parse_errors = @ + 1]
    ELSE LET rows == extract_reference_rows(rel, doc.data)
             batch == st.batch \o rows
         IN  [st EXCEPT !.batch = IF Len(batch) >= limit THEN <<>> ELSE batch,
                        !.total_rows = @ + Len(rows)]

\* one pass of the loop of insert_story_references, for the file rel holding
\* doc; limit is the threshold of the batch
StoryStep(st, rel, doc, limit) ==
    IF LoadRaises(doc) THEN [st EXCEPT !.parse_errors = @ + 1]
    ELSE LET rows == extract_reference_rows(rel, doc.data)
             batch == st.batch \o rows
             flush == Len(batch) >= limit
         IN  [st EXCEPT !.batch = IF flush THEN <<>> ELSE batch,
                        !.total_rows = @ + Len(rows),
                        !.table = IF flush THEN InsertAutoMany(@, batch) ELSE @]

\* the state of the loop before the first file
StoryStart(table) ==
    [batch |-> <<>>, total_rows |-> 0, parse_errors |-> 0, table |-> table]

\* the loop of insert_story_references over files from file i on
RECURSIVE StoryLoop(_, _, _, _)
StoryLoop(st, res, files, i) ==
    IF i > Len(files) THEN st
    ELSE StoryLoop(StoryStep(st, files[i], res[StoryFileName(files[i])], BatchLimit),
                   res, files, i + 1)

insert_story_references(conn, res) ==
    LET st == StoryLoop(StoryStart(conn.story_reference), res, ReferenceFiles(res), 1)
    IN  [conn |-> [conn EXCEPT !.story_reference = InsertAutoMany(st.table, st.batch)],
         raised |-> FALSE,
         story_reference |-> st.total_rows,
         parse_errors |-> st.parse_errors]

\* table_counts and write_meta
table_counts(conn) == [t \in DOMAIN conn \ {"meta", "talk_sentence_fts", "mission_fts",
                                           "avatar_fts", "item_fts"} |-> Len(conn[t])]

write_meta(conn, payload) ==
    [conn EXCEPT !.meta = UpsertMany(@, payload, {"key"}, {"value"})]

\* ---- the resources a build reads ----

FileNames == {"TextMapMainCHS", "TextMapCHS", "TextMapMainEN", "TextMapEN",
              "TextMapMainJP", "TextMapJP",
              "TalkSentenceConfig", "TalkSentenceMultiVoice", "MainMission", "SubMission",
              "MainMissionPack", "AvatarConfig", "AvatarPromotionConfig",
              "AvatarSkillConfig", "AvatarRankConfig", "ItemPurpose", "ItemConfig",
              "ItemConfigAvatar", "a.json", "b.json"}

S13 == <<"1", "3">>
TalkString == <<"x">> \o TalkSentencePrefix \o <<"7", "y">>

\* a well-formed export of every file
DefaultData(name) ==
    CASE name = "TextMapMainCHS" -> JMap(<<[k |-> S12, v |-> JStr(<<"m">>)]>>)
      [] name = "TextMapCHS" ->
            JMap(<<[k |-> S12, v |-> JStr(<<"c">>)], [k |-> S13, v |-> JInt(5)]>>)
      [] name = "TextMapMainEN" -> JMap(<<>>)
      [] name = "TextMapEN" -> JMap(<<[k |-> S12, v |-> JStr(<<"e">>)]>>)
      [] name = "TextMapMainJP" -> JMap(<<[k |-> S12, v |-> JStr(<<"j">>)]>>)
      [] name = "TextMapJP" -> JMap(<<[k |-> S13, v |-> JStr(<<>>)]>>)
      [] name = "TalkSentenceConfig" ->
            JList(<<[k |-> "dict", TalkSentenceID |-> JInt(7), VoiceID |-> JStr(<<"9">>),
                     TalkSentenceText |-> JHash(JInt(12))],
                    [k |-> "dict", TalkSentenceID |-> JInt(8)],
                    [k |-> "dict", TalkSentenceText |-> JHash(JInt(13))]>>)
      [] name = "TalkSentenceMultiVoice" ->
            JList(<<[k |-> "dict", TalkSentenceID |-> JInt(7),
                     VoiceIDList |-> JList(<<JInt(1), JNull, JInt(1)>>)],
                    [k |-> "dict", TalkSentenceID |-> JInt(7),
                     VoiceIDList |-> JList(<<JInt(1)>>)]>>)
      [] name = "MainMission" ->
            JList(<<[k |-> "dict", MainMissionID |-> JInt(3), MissionPack |-> JInt(1),
                     Name |-> JHash(JInt(12))]>>)
      [] name = "SubMission" ->
            JList(<<[k |-> "dict", SubMissionID |-> JInt(301), TargetText |-> JHash(JInt(13))],
                    [k |-> "dict", SubMissionID |-> JInt(301)]>>)
      [] name = "MainMissionPack" ->
            JList(<<[k |-> "dict", MissionPack |-> JInt(1),
                     MainMissionIdList |-> JList(<<JInt(3), JInt(3), JStr(<<"4">>)>>)]>>)
      [] name = "AvatarConfig" ->
            JList(<<[k |-> "dict", AvatarID |-> JInt(1), AvatarName |-> JHash(JInt(12))]>>)
      [] name = "AvatarPromotionConfig" ->
            JList(<<[k |-> "dict", AvatarID |-> JInt(1), MaxLevel |-> JInt(20)],
                    [k |-> "dict", AvatarID |-> JInt(1), Promotion |-> JInt(0),
                     MaxLevel |-> JInt(30)]>>)
      [] name = "AvatarSkillConfig" ->
            JList(<<[k |-> "dict", SkillID |-> JInt(1), Level |-> JInt(1),
                     SkillName |-> JHash(JInt(12))]>>)
      [] name = "AvatarRankConfig" ->
            JList(<<[k |-> "dict", RankID |-> JInt(1), Rank |-> JInt(1),
                     Trigger |-> JHash(JInt(12)), Name |-> JStr(SAb)]>>)
      [] name = "ItemPurpose" ->
            JList(<<[k |-> "dict", ID |-> JInt(1), PurposeText |-> JHash(JInt(12))]>>)
      [] name = "ItemConfig" ->
            JList(<<[k |-> "dict", ID |-> JInt(1), Rarity |-> JStr(<<"R">>),
                     PurposeType |-> JInt(1), ItemName |-> JHash(JInt(12))],
                    [k |-> "dict", ID |-> JInt(2), PileLimit |-> JInt(9)]>>)
      [] name = "ItemConfigAvatar" ->
            JList(<<[k |-> "dict", ID |-> JInt(1), PileLimit |-> JInt(1)]>>)
      [] name = "a.json" ->
            JNode(<<[name |-> "$type", value |-> JStr(<<"T">>)],
                    [name |-> "TaskList", value |->
                        JList(<<JNode(<<[name |-> "TalkSentenceID", value |-> JInt(7)]>>),
                                JNode(<<[name |-> "TriggerCustomString",
                                         value |-> JStr(TalkString)]>>)>>)]>>)
      [] OTHER -> JNode(<<[name |-> "TimelineName", value |-> JStr(<<"t">>)]>>)

DefaultRes == [name \in FileNames |-> Doc("ok", DefaultData(name))]

\* what can be wrong with one file: it does not parse, it is missing, its top
\* level has the wrong shape, or (for a list) its rows are repeated
BadKinds == {"unparsable", "missing", "wrong_shape", "repeated"}

BadDoc(name, kind) ==
    CASE kind = "unparsable" -> Doc("unparsable", JNull)
      [] kind = "missing" -> Doc("missing", JNull)
      [] kind = "wrong_shape" -> Doc("ok", JInt(0))
      [] OTHER -> IF DefaultData(name).k = "list"
                  THEN Doc("ok", JList(DefaultData(name).items \o DefaultData(name).items))
                  ELSE Doc("ok", DefaultData(name))

MaxBadFiles == 1    \* files of the resources that are not well-formed

\* the resources in which the files of DOMAIN kind are replaced by BadDoc
ResWithBad(kind) ==
    [name \in FileNames |->
        IF name \in DOMAIN kind THEN BadDoc(name, kind[name]) ELSE DefaultRes[name]]

BuildResources ==
    {ResWithBad(kind) :
        kind \in UNION {[bad -> BadKinds] : bad \in SubsetsUpTo(FileNames, MaxBadFiles)}}

\* ---- main ----

Steps == <<"text_map", "talk", "missions", "avatars", "items", "refs">>
StepNames == {Steps[i] : i \in DOMAIN Steps}
\* the step after s; after the last one main writes meta and commits
NextStep(s) ==
    LET i == CHOOSE j \in DOMAIN Steps : Steps[j] = s
    IN  IF i < Len(Steps) THEN Steps[i + 1] ELSE "meta"

\* the database file: whether it exists, and the tables committed to it
File(exists, tables) == [exists |-> exists, tables |-> tables]

BuildInit ==
    /\ resources_root \in BuildResources
    /\ fts5Avail \in BOOLEAN
    /\ disk \in {File(FALSE, EmptyStore), File(TRUE, EmptyStore)}
    /\ dbconn = EmptyStore
    /\ text_maps = <<>>
    /\ pc = "start"
    /\ ran = [s \in StepNames |-> 0]
    /\ parse_errors = 0
    /\ EnvIdle /\ ClosureIdle /\ ReadIdle /\ TemplateIdle /\ StatIdle /\ LaterIdle

BuildFrame == UNCHANGED <<envVars, closureVars, readVars, templateVars, statVars, laterVars>>

\* main up to load_text_maps: an existing file is refused without --force,
\* else removed; create_schema commits the empty tables
MainStart ==
    /\ pc = "start"
    /\ \E force \in BOOLEAN :
          IF disk.exists /\ ~force
          THEN /\ pc' = "refused"
               /\ UNCHANGED <<disk, text_maps>>
          ELSE /\ disk' = File(TRUE, EmptyStore)
               /\ IF LoadTextMapsRaises(resources_root)
                  THEN pc' = "aborted" /\ UNCHANGED text_maps
                  ELSE pc' = "text_map" /\ text_maps' = load_text_maps(resources_root)
    /\ UNCHANGED <<resources_root, fts5Avail, dbconn, ran, parse_errors>>
    /\ BuildFrame

\* one ingestion step of main: an exception leaves main through the finally
\* clause, which closes the connection without a commit
Step(name, result) ==
    /\ pc = name
    /\ ran' = [ran EXCEPT ![name] = @ + 1]
    /\ IF result.raised
       THEN pc' = "aborted" /\ dbconn' = disk.tables
       ELSE pc' = NextStep(name) /\ dbconn' = result.conn
    /\ UNCHANGED <<resources_root, fts5Avail, disk, text_maps>>
    /\ BuildFrame

InsertTextMap ==
    /\ Step("text_map", Ok(insert_text_map(dbconn, text_maps)))
    /\ UNCHANGED parse_errors

InsertTalk ==
    /\ Step("talk", insert_talk(dbconn, resources_root, text_maps, fts5Avail))
    /\ UNCHANGED parse_errors

InsertMissions ==
    /\ Step("missions", insert_missions(dbconn, resources_root, text_maps, fts5Avail))
    /\ UNCHANGED parse_errors

InsertAvatars ==
    /\ Step("avatars", insert_avatars(dbconn, resources_root, text_maps, fts5Avail))
    /\ UNCHANGED parse_errors

InsertItems ==
    /\ Step("items", insert_items(dbconn, resources_root, text_maps, fts5Avail))
    /\ UNCHANGED parse_errors

InsertStoryReferences ==
    LET result == insert_story_references(dbconn, resources_root)
    IN  /\ Step("refs", result)
        /\ parse_errors' = result.parse_errors

MetaPayload(c) == <<[key |-> "langs", value |-> BuildLangs],
                    [key |-> "table_counts", value |-> table_counts(c)]>>

\* table_counts, write_meta, conn.commit()
WriteMetaCommit ==
    /\ pc = "meta"
    /\ dbconn' = write_meta(dbconn, MetaPayload(dbconn))
    /\ disk' = File(TRUE, dbconn')
    /\ pc' = "done"
    /\ UNCHANGED <<resources_root, fts5Avail, text_maps, ran, parse_errors>>
    /\ BuildFrame

IngestionStep ==
    \/ InsertTextMap
    \/ InsertTalk
    \/ InsertMissions
    \/ InsertAvatars
    \/ InsertItems
    \/ InsertStoryReferences

BuildNext == MainStart \/ IngestionStep \/ WriteMetaCommit

SpecBuild == BuildInit /\ [][BuildNext]_vars

-----------------------------------------------------------------------------
(* Claims about main *)

\* some file of the resources fails to parse or has the wrong top-level shape
SomeFileMalformed ==
    \E name \in FileNames :
        \/ resources_root[name].st = "unparsable"
        \/ resources_root[name] = BadDoc(name, "wrong_shape")

\* C5: no input aborts the build: when a file fails to parse or has the wrong
\* shape, main is still never left by an exception of a step, so that every
\* later step runs, meta is written and the transaction is committed.
C5_BuildNeverAborts == SomeFileMalformed => pc # "aborted"

-----------------------------------------------------------------------------
(* Running the ingestion steps again on a connection that holds earlier results *)

MaxRuns == 2    \* times the sequence of ingestion steps is started on one connection

\* other well-formed exports of some files
AltNames == {"TalkSentenceConfig", "ItemConfigAvatar", "b.json"}
AltData(name) ==
    CASE name = "TalkSentenceConfig" ->
            JList(<<[k |-> "dict", TalkSentenceID |-> JStr(<<" ", "7">>),
                     TalkSentenceText |-> JHash(JStr(<<"1", "3", " ">>))]>>)
      [] name = "ItemConfigAvatar" ->
            JList(<<[k |-> "dict", ID |-> JInt(3), ItemName |-> JHash(JInt(13))],
                    [k |-> "dict", ID |-> JInt(3), Rarity |-> JStr(<<"S">>)]>>)
      [] OTHER -> JList(<<>>)

RerunResources ==
    {[name \in FileNames |->
        Doc("ok", IF name \in alt THEN AltData(name) ELSE DefaultData(name))] :
     alt \in SUBSET AltNames}

RerunInit ==
    /\ resources_root \in RerunResources
    /\ fts5Avail \in BOOLEAN
    /\ disk = File(TRUE, EmptyStore)
    /\ dbconn = EmptyStore
    /\ text_maps = load_text_maps(resources_root)
    /\ pc = "text_map"
    /\ ran = [s \in StepNames |-> 0]
    /\ parse_errors = 0
    /\ EnvIdle /\ ClosureIdle /\ ReadIdle /\ TemplateIdle /\ StatIdle /\ LaterIdle

\* the caller starts the sequence of steps again on the same connection,
\* after all of them or only some of them have run
Restart ==
    /\ pc \in (StepNames \cup {"meta"}) \ {"text_map"}
    /\ ran["text_map"] < MaxRuns
    /\ pc' = "text_map"
    /\ UNCHANGED <<resources_root, fts5Avail, disk, dbconn, text_maps, ran, parse_errors>>
    /\ BuildFrame

RerunNext == IngestionStep \/ Restart

SpecRerun == RerunInit /\ [][RerunNext]_vars

\* the tables one uninterrupted run of the steps leaves on an empty store
OneRun ==
    LET c1 == insert_text_map(EmptyStore, text_maps)
        c2 == insert_talk(c1, resources_root, text_maps, fts5Avail).conn
        c3 == insert_missions(c2, resources_root, text_maps, fts5Avail).conn
        c4 == insert_avatars(c3, resources_root, text_maps, fts5Avail).conn
        c5 == insert_items(c4, resources_root, text_maps, fts5Avail).conn
    IN  insert_story_references(c5, resources_root).conn

\* the step that writes table t
StepOf(t) ==
    CASE t = "text_map" -> "text_map"
      [] t \in {"talk_sentence", "talk_sentence_multi_voice", "talk_sentence_fts"} -> "talk"
      [] t \in {"main_mission", "sub_mission", "mission_pack_link", "mission_fts"} -> "missions"
      [] t \in {"avatar", "avatar_promotion", "avatar_skill", "avatar_rank", "avatar_fts"}
            -> "avatars"
      [] t \in {"item", "item_fts"} -> "items"
      [] OTHER -> "refs"

IngestedTables == DOMAIN EmptyStore \ {"meta"}

\* all steps have run in the current sequence, which was not the first one
RerunComplete == pc = "meta" /\ ran["text_map"] >= 2

\* C8 (as stated): after the steps have been run again over the same input on
\* a connection holding the result of an earlier full or partial run, every
\* table, story_reference included, holds exactly the rows of one
\* uninterrupted run.
C8_RerunLeavesOneRun ==
    RerunComplete => \A t \in IngestedTables : dbconn[t] = OneRun[t]

\* a row of story_reference without its generated id
WithoutId(row) == [c \in DOMAIN row \ {"id"} |-> row[c]]

\* C8 (amended): at any point of any sequence of runs, every table other than
\* story_reference holds exactly the rows one uninterrupted run writes to it
\* (once its step has run), nothing duplicated; story_reference holds one copy
\* of the extracted references per run of insert_story_references, under
\* fresh ids.
C8_RerunIdempotentButReferences ==
    /\ \A t \in IngestedTables \ {"story_reference"} :
          dbconn[t] = IF ran[StepOf(t)] > 0 THEN OneRun[t] ELSE <<>>
    /\ LET refs == OneRun.story_reference
           tbl == dbconn.story_reference
       IN  /\ Len(tbl) = ran["refs"] * Len(refs)
           /\ \A i \in DOMAIN tbl :
                 /\ tbl[i].id = i
                 /\ WithoutId(tbl[i]) = WithoutId(refs[((i - 1) % Len(refs)) + 1])

\* a second complete run over input that fills the tables written with
\* DO NOTHING and the reference table
C8_Witness ==
    /\ RerunComplete
    /\ \A s \in StepNames : ran[s] = 2
    /\ Len(dbconn.talk_sentence_multi_voice) = 2
    /\ dbconn.mission_pack_link # <<>>
    /\ dbconn.talk_sentence # <<>>
    /\ Len(dbconn.story_reference) = 2 * Len(OneRun.story_reference)
    /\ OneRun.story_reference # <<>>

-----------------------------------------------------------------------------
(* insert_items over item files that define an id more than once *)

MaxItemDefs == 3    \* item definitions in the item files together

ItemIds == {1, 2}
ItemOptional == {"Rarity", "ItemName"}

\* a definition of item id that has the optional fields fs
ItemDef(id, fs) ==
    [x \in {"k", "ID"} \cup fs |->
        CASE x = "k" -> "dict"
          [] x = "ID" -> JInt(id)
          [] x = "Rarity" -> JStr(<<"R">>)
          [] OTHER -> JHash(JInt(12))]

ItemDefs == {ItemDef(id, fs) : id \in ItemIds, fs \in SUBSET ItemOptional}

SeqsUpTo(S, n) == UNION {[1..m -> S] : m \in 0..n}

ItemsInit ==
    /\ \E first \in SeqsUpTo(ItemDefs, MaxItemDefs) :
       \E second \in SeqsUpTo(ItemDefs, MaxItemDefs - Len(first)) :
          resources_root = [DefaultRes EXCEPT !["ItemConfig"] = Doc("ok", JList(first)),
                                              !["ItemConfigAvatar"] = Doc("ok", JList(second))]
    /\ fts5Avail = TRUE
    /\ disk = File(TRUE, EmptyStore)
    /\ dbconn = EmptyStore
    /\ text_maps = load_text_maps(DefaultRes)
    /\ pc = "items"
    /\ ran = [s \in StepNames |-> 0]
    /\ parse_errors = 0
    /\ EnvIdle /\ ClosureIdle /\ ReadIdle /\ TemplateIdle /\ StatIdle /\ LaterIdle

SpecItems == ItemsInit /\ [][InsertItems]_vars

\* the definitions of the item files in ingestion order, each with its file
ItemDefinitions ==
    Concat([i \in DOMAIN ItemFileNames |->
               [j \in DOMAIN resources_root[ItemFileNames[i]].data.items |->
                   [file |-> ItemFileNames[i],
                    def |-> resources_root[ItemFileNames[i]].data.items[j]]]])

\* the position of the last definition of id
LastDefinition(id) ==
    CHOOSE i \in DOMAIN ItemDefinitions :
        /\ ItemDefinitions[i].def.ID = JInt(id)
        /\ \A j \in DOMAIN ItemDefinitions : ItemDefinitions[j].def.ID = JInt(id) => j <= i

DefinedIds == {id \in ItemIds : \E i \in DOMAIN ItemDefinitions :
                                   ItemDefinitions[i].def.ID = JInt(id)}

\* the row derived from one definition alone: a column whose field is absent
\* is NULL
DerivedItemRow(d) ==
    [item_id |-> d.def.ID,
     source_file |-> d.file,
     rarity |-> IF "Rarity" \in DOMAIN d.def THEN <<"R">> ELSE None,
     purpose_type |-> JNull,
     purpose_text_chs |-> None,
     item_name_hash |-> IF "ItemName" \in DOMAIN d.def THEN S12 ELSE None,
     item_name_chs |-> IF "ItemName" \in DOMAIN d.def THEN <<"c">> ELSE None,
     item_name_en |-> IF "ItemName" \in DOMAIN d.def THEN <<"e">> ELSE None,
     item_desc_chs |-> None,
     item_bg_desc_chs |-> None,
     pile_limit |-> JNull]

ItemsIngested == pc = NextStep("items") /\ ran["items"] = 1

\* C9: after the item files are ingested in order, every defined id has
\* exactly one row, every column of which is the value derived from the last
\* definition of that id (NULL where that definition has no field, source_file
\* naming its file); ids that are not redefined keep the row of their own
\* definition.
C9_LaterDefinitionWins ==
    ItemsIngested =>
        /\ Len(dbconn.item) = Cardinality(DefinedIds)
        /\ \A id \in DefinedIds :
              \E i \in DOMAIN dbconn.item :
                  dbconn.item[i] = DerivedItemRow(ItemDefinitions[LastDefinition(id)])

\* the later file redefines an id with fewer fields than the earlier file
\* gave it, and the earlier file defines another id as well
C9_Witness ==
    /\ ItemsIngested
    /\ \E i, j \in DOMAIN ItemDefinitions :
          /\ ItemDefinitions[i].file = "ItemConfig"
          /\ ItemDefinitions[j].file = "ItemConfigAvatar"
          /\ ItemDefinitions[i].def.ID = ItemDefinitions[j].def.ID
          /\ "Rarity" \in DOMAIN ItemDefinitions[i].def
          /\ "Rarity" \notin DOMAIN ItemDefinitions[j].def
    /\ Cardinality(DefinedIds) = 2
    /\ \E i \in DOMAIN dbconn.item :
          dbconn.item[i].source_file = "ItemConfigAvatar" /\ dbconn.item[i].rarity = None

-----------------------------------------------------------------------------
(* text_map: writing with insert_text_map / ensure_lang_loaded, reading with
   resolve_text_from_key *)

MaxPuts == 2    \* calls of insert_text_map on one connection

\* serve.py ensure_lang_loaded: the merged documents of one language; a file
\* that is missing, does not parse or holds no object is skipped
MergedForLang(res, lang) ==
    LET names == TextMapFiles(lang)
        step(d, name) ==
            IF res[name].st # "ok" \/ res[name].data.k # "map" THEN d
            ELSE DictUpdate(d, res[name].data.entries)
    IN  step(step(<<>>, names[1]), names[2])

\* the rows ensure_lang_loaded writes: none when the language has a row
\* already or its documents are empty
EnsureRows(conn, res, lang) ==
    IF \E i \in DOMAIN conn.text_map : conn.text_map[i].lang = lang THEN <<>>
    ELSE TextMapRowsOf(lang, MergedForLang(res, lang))

ensure_lang_loaded(conn, res, lang) ==
    [conn EXCEPT !.text_map =
        UpsertMany(@, EnsureRows(conn, res, lang), {"lang", "hash"}, {"text"})]

\* the rows of a table as a set
TableRows(tbl) == {tbl[i] : i \in DOMAIN tbl}

ChsDicts == {<<>>, <<[k |-> S12, v |-> <<"c">>]>>,
             <<[k |-> S12, v |-> <<"d">>], [k |-> S13, v |-> <<>>]>>}
EnDicts == {<<>>, <<[k |-> S12, v |-> <<"e">>]>>}
PutMaps == {[l \in {"CHS", "EN"} |-> IF l = "CHS" THEN c ELSE e] :
               c \in ChsDicts, e \in EnDicts}

TextMapInit ==
    /\ resources_root = DefaultRes
    /\ fts5Avail = TRUE
    /\ disk = File(TRUE, EmptyStore)
    /\ dbconn = EmptyStore
    /\ text_maps = <<>>
    /\ pc = "text_store"
    /\ ran = [s \in StepNames |-> 0]
    /\ parse_errors = 0
    /\ served = {}
    /\ call = NoCall
    /\ EnvIdle /\ ClosureIdle /\ TemplateIdle /\ StatIdle /\ LaterIdle

TextMapFrame ==
    UNCHANGED <<resources_root, fts5Avail, disk, text_maps, pc, parse_errors, served,
                envVars, closureVars, templateVars, statVars, laterVars>>

\* what a write to text_map did: the rows given and the table before
Wrote(site, rows, before) == call' = [site |-> site, rows |-> rows, before |-> before]

PutTextMap ==
    /\ pc = "text_store"
    /\ ran["text_map"] < MaxPuts
    /\ \E lm \in PutMaps :
          /\ dbconn' = insert_text_map(dbconn, lm)
          /\ Wrote("insert_text_map", TextMapRows(lm), dbconn.text_map)
    /\ ran' = [ran EXCEPT !["text_map"] = @ + 1]
    /\ TextMapFrame

EnsureLangLoaded ==
    /\ pc = "text_store"
    /\ \E lang \in ReadLangs :
          /\ dbconn' = ensure_lang_loaded(dbconn, resources_root, lang)
          /\ Wrote("ensure_lang_loaded", EnsureRows(dbconn, resources_root, lang),
                   dbconn.text_map)
    /\ UNCHANGED ran
    /\ TextMapFrame

TextLookup ==
    /\ pc = "text_store"
    /\ \E lang \in ReadLangs, key \in {S12, S13} :
          Called("lookup", lang, key, AddrOfKey(key),
                 resolve_text_from_key(TableRows(dbconn.text_map), lang, key),
                 QueriedFromKey(lang, key))
    /\ UNCHANGED <<dbconn, ran>>
    /\ TextMapFrame

TextMapNext == PutTextMap \/ EnsureLangLoaded \/ TextLookup

SpecTextMap == TextMapInit /\ [][TextMapNext]_vars

JustWrote == call.site \in {"insert_text_map", "ensure_lang_loaded"}

SameTextKey(a, b) == a.lang = b.lang /\ a.hash = b.hash

\* C10: after a write of rows (lang, hash, text) a lookup of each (lang, hash)
\* returns exactly its text; the table holds one row per key, so a write to an
\* existing key replaced its text; rows of keys that were not written are the
\* rows that were there before, and no other row appeared.
C10_TextMapRoundTrip ==
    JustWrote =>
        LET tm == dbconn.text_map
            put == call.rows
            before == call.before
        IN  /\ \A i \in DOMAIN put :
                  resolve_text_from_key(TableRows(tm), put[i].lang, put[i].hash) = put[i].text
            /\ \A i, j \in DOMAIN tm : SameTextKey(tm[i], tm[j]) => i = j
            /\ \A i \in DOMAIN before :
                  (\A j \in DOMAIN put : ~SameTextKey(before[i], put[j]))
                      => before[i] \in TableRows(tm)
            /\ \A i \in DOMAIN tm : tm[i] \in TableRows(put) \cup TableRows(before)

\* a second write replaced the text of an existing key while another key's
\* row stayed
C10_Witness ==
    /\ call.site = "insert_text_map"
    /\ \E i \in DOMAIN call.rows, j \in DOMAIN call.before :
          SameTextKey(call.rows[i], call.before[j]) /\ call.rows[i].text # call.before[j].text
    /\ \E j \in DOMAIN call.before :
          /\ \A i \in DOMAIN call.rows : ~SameTextKey(call.rows[i], call.before[j])
          /\ call.before[j] \in TableRows(dbconn.text_map)

-----------------------------------------------------------------------------
(* serve.py: parse_param_values, format_num, apply_param_template           *)
(* A float is finite, in units of 1/Scale, or one of the non-finite values. *)
(* The finite values used are binary fractions, so that round() and the     *)
(* "f" presentation type round them half-to-even exactly as computed here.  *)

Scale == 10000
Fin(n) == [k |-> "fin", n |-> n]
Inf == [k |-> "inf"]
NaN == [k |-> "nan"]

\* json.loads results besides JNull, JInt, JStr, JList: a float literal
\* (Infinity and NaN are accepted), true / false, an object with a Value key,
\* an integer literal beyond the range of float
JFloat(v) == [k |-> "float", v |-> v]
JBool(b) == [k |-> "bool", b |-> b]
JValue(v) == [k |-> "dict", Value |-> v]
JHugeInt == [k |-> "hugeint"]
\* a str argument, holding JSON text or not
JText(doc) == [k |-> "text", doc |-> doc]

Returned(v) == [called |-> TRUE, raised |-> FALSE, value |-> v]
Raises(e) == [called |-> TRUE, raised |-> TRUE, exc |-> e]

LowerChar(c) == CASE c = "F" -> "f" [] c = "I" -> "i" [] c = "N" -> "n"
                  [] c = "A" -> "a" [] OTHER -> c
Lower(s) == [i \in DOMAIN s |-> LowerChar(s[i])]

\* float(str): numerals, "inf" and "nan" in any case, surrounded by blanks
PyFloat(s) ==
    LET w == Lower(Strip(s)) IN
    IF IsDigits(w) THEN Returned(Fin(StrToNat(w) * Scale))
    ELSE IF w \in {<<"i", "n", "f">>, <<"i", "n", "f", "i", "n", "i", "t", "y">>}
    THEN Returned(Inf)
    ELSE IF w = <<"n", "a", "n">> THEN Returned(NaN)
    ELSE Raises("ValueError")

\* the loop of parse_param_values over data
RECURSIVE ParseItems(_, _)
ParseItems(items, vals) ==
    IF items = <<>> THEN Returned(vals)
    ELSE LET item == Head(items)
             src_ == IF item.k = "dict" THEN Get(item, "Value") ELSE item
         IN  CASE src_.k = "float" -> ParseItems(Tail(items), Append(vals, src_.v))
               [] src_.k = "int" -> ParseItems(Tail(items), Append(vals, Fin(src_.n * Scale)))
               [] src_.k = "bool" ->
                    ParseItems(Tail(items), Append(vals, Fin(IF src_.b THEN Scale ELSE 0)))
               [] src_.k = "hugeint" -> Raises("OverflowError")
               [] src_.k = "str" ->
                    IF PyFloat(src_.s).raised THEN ParseItems(Tail(items), vals)
                    ELSE ParseItems(Tail(items), Append(vals, PyFloat(src_.s).value))
               [] OTHER -> ParseItems(Tail(items), vals)

parse_param_values(raw) ==
    IF raw = JNull THEN Returned(<<>>)
    ELSE IF raw.k = "text" /\ LoadRaises(raw.doc) THEN Returned(<<>>)
    ELSE LET data == IF raw.k = "text" THEN raw.doc.data ELSE raw IN
         IF ~IsList(data) THEN Returned(<<>>)
         ELSE ParseItems(data.items, <<>>)

RECURSIVE Pow10(_)
Pow10(d) == IF d = 0 THEN 1 ELSE 10 * Pow10(d - 1)

\* n / unit rounded to an integer, ties to even
RoundHalfEven(n, unit) ==
    LET q == n \div unit
        r == n % unit
    IN  IF 2 * r < unit THEN q
        ELSE IF 2 * r > unit THEN q + 1
        ELSE IF q % 2 = 0 THEN q ELSE q + 1

RECURSIVE ZeroPad(_, _)
ZeroPad(s, width) == IF Len(s) >= width THEN s ELSE ZeroPad(<<"0">> \o s, width)

RECURSIVE RStripChar(_, _)
RStripChar(s, c) ==
    IF s # <<>> /\ s[Len(s)] = c THEN RStripChar(SubSeq(s, 1, Len(s) - 1), c) ELSE s

\* f"{value:.{decimals}f}"
FormatFixed(value, decimals) ==
    CASE value.k = "inf" -> <<"i", "n", "f">>
      [] value.k = "nan" -> <<"n", "a", "n">>
      [] OTHER ->
           LET q == IF decimals >= 4 THEN value.n * Pow10(decimals - 4)
                    ELSE RoundHalfEven(value.n, Pow10(4 - decimals))
               a == IF q < 0 THEN 0 - q ELSE q
               whole == NatToStr(a \div Pow10(decimals))
               frac == IF decimals = 0 THEN <<>>
                       ELSE <<".">> \o ZeroPad(NatToStr(a % Pow10(decimals)), decimals)
           IN  (IF q < 0 THEN <<"-">> ELSE <<>>) \o whole \o frac

\* decimals is JNull (None) or JInt(n)
format_num(value, decimals, trim) ==
    IF decimals # JNull
    THEN LET out == FormatFixed(value, decimals.n) IN
         IF trim /\ decimals.n > 0 THEN RStripChar(RStripChar(out, "0"), ".") ELSE out
    ELSE IF value.k = "fin" /\ value.n % Scale = 0 THEN IntToStr(value.n \div Scale)
    ELSE RStripChar(RStripChar(FormatFixed(value, 4), "0"), ".")

\* SKILL_PARAM_RE = #(\d+)(?:\[([^\]]+)\])?(%)?
RECURSIVE DigitsEnd(_, _)
DigitsEnd(t, i) == IF i <= Len(t) /\ t[i] \in Digits THEN DigitsEnd(t, i + 1) ELSE i

RECURSIVE FindClose(_, _)
FindClose(t, k) == IF k > Len(t) THEN 0 ELSE IF t[k] = "]" THEN k ELSE FindClose(t, k + 1)

SkillParamAt(t, i) == t[i] = "#" /\ i < Len(t) /\ t[i + 1] \in Digits

\* the match of SKILL_PARAM_RE that starts at i
SkillParamMatch(t, i) ==
    LET j == DigitsEnd(t, i + 1)
        k == IF j <= Len(t) /\ t[j] = "[" THEN FindClose(t, j + 1) ELSE 0
        hasFmt == k > j + 1
        e == IF hasFmt THEN k + 1 ELSE j
        pct == e <= Len(t) /\ t[e] = "%"
        end == IF pct THEN e + 1 ELSE e
    IN  [group0 |-> SubSeq(t, i, end - 1),
         group1 |-> SubSeq(t, i + 1, j - 1),
         group2 |-> IF hasFmt THEN SubSeq(t, j + 1, k - 1) ELSE <<>>,
         group3 |-> pct,
         end |-> end]

Times100(value) == IF value.k = "fin" THEN Fin(value.n * 100) ELSE value

\* str(int(round(value)))
RoundToIntStr(value) ==
    CASE value.k = "inf" -> Raises("OverflowError")
      [] value.k = "nan" -> Raises("ValueError")
      [] OTHER -> Returned(IntToStr(RoundHalfEven(value.n, Scale)))

FixedDecimalsZero(fmt) == 0

\* re.match(r"f(\d+)", fmt): the decimals, 0 without a match
FixedDecimals(fmt) ==
    LET e == DigitsEnd(fmt, 2) IN
    IF e > 2 THEN StrToNat(SubSeq(fmt, 2, e - 1)) ELSE 0

repl_clamping(match, params) ==
    LET asked == StrToNat(match.group1) - 1
        idx == IF asked >= Len(params) THEN Len(params) - 1 ELSE asked
        fmt == Lower(Strip(match.group2))
        is_percent == match.group3
    IN  IF idx < 0 \/ idx >= Len(params) THEN Returned(match.group0)
        ELSE LET value == IF is_percent THEN Times100(params[idx + 1]) ELSE params[idx + 1]
                 out == IF fmt # <<>> /\ fmt[1] = "i" THEN RoundToIntStr(value)
                        ELSE IF fmt # <<>> /\ fmt[1] = "f"
                        THEN Returned(format_num(value, JInt(FixedDecimals(fmt)), FALSE))
                        ELSE Returned(format_num(value, JNull, TRUE))
             IN  IF out.raised THEN out
                 ELSE Returned(out.value \o (IF is_percent THEN <<"%">> ELSE <<>>))

repl(match, params) ==
    LET idx == StrToNat(match.group1) - 1
        fmt == Lower(Strip(match.group2))
        is_percent == match.group3
    IN  IF idx < 0 \/ idx >= Len(params) THEN Returned(match.group0)
        ELSE LET value == IF is_percent THEN Times100(params[idx + 1]) ELSE params[idx + 1]
                 out == IF fmt # <<>> /\ fmt[1] = "i" THEN RoundToIntStr(value)
                        ELSE IF fmt # <<>> /\ fmt[1] = "f"
                        THEN Returned(format_num(value, JInt(FixedDecimals(fmt)), FALSE))
                        ELSE Returned(format_num(value, JNull, TRUE))
             IN  IF out.raised THEN out
                 ELSE Returned(out.value \o (IF is_percent THEN <<"%">> ELSE <<>>))

\* SKILL_PARAM_RE.sub(repl, template), scanning from position i
RECURSIVE ReSub(_, _, _, _)
ReSub(t, i, params, acc) ==
    IF i > Len(t) THEN Returned(acc)
    ELSE IF SkillParamAt(t, i)
    THEN LET m == SkillParamMatch(t, i)
             r == repl(m, params)
         IN  IF r.raised THEN r ELSE ReSub(t, m.end, params, acc \o r.value)
    ELSE ReSub(t, i + 1, params, Append(acc, t[i]))

apply_param_template(tpl, raw) ==
    IF tpl = None THEN Returned(None)
    ELSE LET parsed == parse_param_values(raw) IN
         IF parsed.raised THEN parsed
         ELSE IF parsed.value = <<>> THEN Returned(tpl)
         ELSE ReSub(tpl, 1, parsed.value, <<>>)

MaxSegments == 3    \* pieces a template is put together from
MaxParams == 2      \* elements of the parameter list

Segments == {<<"a">>, <<"#", "1">>, <<"#", "2">>, <<"#", "0">>,
             <<"[", "i", "]">>, <<"[", "f", "1", "]">>, <<"%">>}

\* 0.125, 2.5, Infinity, "nan", an integer literal beyond the float range, null
ParamItems == {JFloat(Fin(1250)), JFloat(Fin(25000)), JFloat(Inf), JStr(<<"n", "a", "n">>),
               JHugeInt, JNull}
RawParams == {JNull, JText(Doc("unparsable", JNull)), JText(Doc("ok", JValue(JInt(1))))}
             \cup {JText(Doc("ok", JList(items))) : items \in SeqsUpTo(ParamItems, MaxParams)}

TemplateInit ==
    /\ segments \in SeqsUpTo(Segments, MaxSegments)
    /\ template \in {Concat(segments)} \cup (IF segments = <<>> THEN {None} ELSE {})
    /\ raw_params \in RawParams
    /\ rendered = NotCalled
    /\ EnvIdle /\ ClosureIdle /\ ReadIdle /\ BuildIdle /\ StatIdle /\ LaterIdle

ApplyParamTemplate ==
    /\ rendered = NotCalled
    /\ rendered' = apply_param_template(template, raw_params)
    /\ UNCHANGED <<template, segments, raw_params, envVars, closureVars, readVars, buildVars, statVars,
                   laterVars>>

SpecTemplate == TemplateInit /\ [][ApplyParamTemplate]_vars

\* C6: apply_param_template never raises, whatever the template and the
\* parameter list are (non-finite parameter values, any index digits, any
\* format text); a placeholder that cannot be rendered is left as its token.
C6_TemplateNeverRaises == rendered.called => ~rendered.raised

-----------------------------------------------------------------------------
(* serve.py: stat_at_level, build_avatar_level_stats                         *)
(* A REAL column is JNull or a number in units of 1/StatScale; the numbers  *)
(* used are multiples of 1/32, exact in binary, so that round(x, 4) is the  *)
(* half-to-even rounding computed here.                                     *)

StatScale == 100000
JReal(n) == [k |-> "real", n |-> n]

\* round(x, 4)
Round4(x) == JReal(RoundHalfEven(x.n, StatScale \div 10000) * (StatScale \div 10000))

stat_at_level_falling(base, growth, level) ==
    IF base = JNull THEN JNull
    ELSE IF growth = JNull THEN Round4(base)
    ELSE Round4(JReal(base.n - growth.n * (level - 1)))

stat_at_level(base, growth, level) ==
    IF base = JNull THEN JNull
    ELSE IF growth = JNull THEN Round4(base)
    ELSE Round4(JReal(base.n + growth.n * (level - 1)))

\* int(x.get("max_level") or 0)
MaxLevelKey(p) == IF p.max_level = JNull THEN 0 ELSE p.max_level.n

\* list.sort(key=...): stable, ascending
RECURSIVE SortByMaxLevel(_)
SortByMaxLevel(rows) ==
    IF rows = <<>> THEN <<>>
    ELSE LET last == rows[Len(rows)]
             done == SortByMaxLevel(SubSeq(rows, 1, Len(rows) - 1))
             le == SelectSeq(done, LAMBDA p : MaxLevelKey(p) <= MaxLevelKey(last))
             gt == SelectSeq(done, LAMBDA p : MaxLevelKey(p) > MaxLevelKey(last))
         IN  le \o <<last>> \o gt

ValidPromotions(rows) == SortByMaxLevel(SelectSeq(rows, LAMBDA p : p.max_level # JNull))

\* next((p for p in valid if level <= int(p.get("max_level") or 0)), valid[-1])
StageAt(valid, level) ==
    IF \E i \in DOMAIN valid : level <= MaxLevelKey(valid[i])
    THEN valid[CHOOSE i \in DOMAIN valid :
                  /\ level <= MaxLevelKey(valid[i])
                  /\ \A j \in 1..(i - 1) : level > MaxLevelKey(valid[j])]
    ELSE valid[Len(valid)]

LevelRow(stage, level) ==
    [level |-> level,
     promotion |-> stage.promotion,
     hp |-> stat_at_level(stage.hp_base, stage.hp_add, level),
     attack |-> stat_at_level(stage.attack_base, stage.attack_add, level),
     defence |-> stat_at_level(stage.defence_base, stage.defence_add, level),
     speed |-> stat_at_level(stage.speed_base, JNull, level)]

build_avatar_level_stats(rows, max_level) ==
    LET valid == ValidPromotions(rows) IN
    IF valid = <<>> THEN <<>>
    ELSE [level \in 1..max_level |-> LevelRow(StageAt(valid, level), level)]

MaxStages == 2     \* promotion rows of the avatar
MaxLevel == 3      \* the level cap asked for

StatBases == {JNull, JReal(3125), JReal(15625)}
StatGrowths == {JNull, JReal(0 - 6250), JReal(6250)}
StageCeilings == {JNull, JInt(1), JInt(2)}

PromotionRow(ml, b, g) ==
    [promotion |-> JNull, max_level |-> ml,
     hp_base |-> b, hp_add |-> g,
     attack_base |-> b, attack_add |-> JNull,
     defence_base |-> JReal(3125), defence_add |-> g,
     speed_base |-> b]
PromotionShapes == {PromotionRow(ml, b, g) : ml \in StageCeilings, b \in StatBases,
                                             g \in StatGrowths}
\* avatar_promotion has PRIMARY KEY (avatar_id, promotion); ORDER BY promotion
PromotionLists ==
    {[i \in DOMAIN f |-> [f[i] EXCEPT !.promotion = JInt(i - 1)]] :
        f \in SeqsUpTo(PromotionShapes, MaxStages)}

StatInit ==
    /\ promotions \in PromotionLists
    /\ level_max \in 1..MaxLevel
    /\ level_stats = NotCalled
    /\ worker_stats = NotCalled
    /\ EnvIdle /\ ClosureIdle /\ ReadIdle /\ BuildIdle /\ TemplateIdle /\ LaterIdle

BuildAvatarLevelStats ==
    /\ level_stats = NotCalled
    /\ level_stats' = [called |-> TRUE,
                       rows |-> build_avatar_level_stats(promotions, level_max)]
    /\ UNCHANGED <<promotions, level_max, worker_stats, envVars, closureVars, readVars,
                   buildVars, templateVars, laterVars>>

SpecStats == StatInit /\ [][BuildAvatarLevelStats]_vars

StatNames == {"hp", "attack", "defence"}
NonNegative(g) == g = JNull \/ g.n >= 0
NonNegativeGrowth ==
    \A i \in DOMAIN promotions :
        /\ NonNegative(promotions[i].hp_add)
        /\ NonNegative(promotions[i].attack_add)
        /\ NonNegative(promotions[i].defence_add)
\* a is not above b, for two values that are both defined
NotAbove(a, b) == (a # JNull /\ b # JNull) => a.n <= b.n
SameStage(l) ==
    StageAt(ValidPromotions(promotions), l) = StageAt(ValidPromotions(promotions), l + 1)

\* C7: with non-negative growth terms, hp, attack and defence of the rows
\* returned by build_avatar_level_stats never decrease from one level to the
\* next, the levels where the selected promotion stage changes included.
C7_StatsNonDecreasing ==
    (level_stats.called /\ NonNegativeGrowth) =>
        \A l \in 1..(Len(level_stats.rows) - 1) : \A s \in StatNames :
            NotAbove(level_stats.rows[l][s], level_stats.rows[l + 1][s])

\* C7 (amended): with non-negative growth terms, hp, attack and defence
\* never decrease between two consecutive levels that take their values from
\* the same promotion stage.
C7_StatsNonDecreasingWithinStage ==
    (level_stats.called /\ NonNegativeGrowth) =>
        \A l \in 1..(Len(level_stats.rows) - 1) : \A s \in StatNames :
            SameStage(l) => NotAbove(level_stats.rows[l][s], level_stats.rows[l + 1][s])

\* a call with non-negative growth whose rows rise within one stage and also
\* cross a stage change
C7_Witness ==
    /\ level_stats.called /\ NonNegativeGrowth
    /\ Len(level_stats.rows) = MaxLevel
    /\ \E l \in 1..(Len(level_stats.rows) - 1) :
          /\ SameStage(l)
          /\ level_stats.rows[l].hp # JNull
          /\ level_stats.rows[l].hp.n < level_stats.rows[l + 1].hp.n
    /\ \E l \in 1..(Len(level_stats.rows) - 1) : ~SameStage(l)

-----------------------------------------------------------------------------
(* serve.py: hash_text_key under functools.lru_cache, over the life of      *)
(* server processes that find different hash implementations                *)

LruMaxSize == 8192
MaxHashCalls == 3    \* calls of hash_text_key in one behaviour

HashKeys == {<<" ">>, <<" ", "1", "2">>, SAb, <<" ", "a", "b">>, SNeg12}

CacheHas(cache, key) == \E i \in DOMAIN cache : cache[i].key = key
CacheGet(cache, key) == cache[CHOOSE i \in DOMAIN cache : cache[i].key = key].result
\* a hit makes the entry the most recently used one
CacheTouch(cache, key) ==
    SelectSeq(cache, LAMBDA e : e.key # key) \o SelectSeq(cache, LAMBDA e : e.key = key)
\* a miss stores the result and drops the least recently used entry of a full cache
CachePut(cache, key, result) ==
    LET kept == IF Len(cache) >= LruMaxSize THEN Tail(cache) ELSE cache
    IN  Append(kept, [key |-> key, result |-> result])

HashInit ==
    /\ xxhashAvail \in BOOLEAN
    /\ xxhsumAvail \in BOOLEAN
    /\ hash_cache = <<>> /\ hash_log = <<>> /\ hash_proc = 0
    /\ ClosureIdle /\ ReadIdle /\ BuildIdle /\ TemplateIdle /\ StatIdle /\ WalkIdle
    /\ MoreIdle

HashFrame ==
    UNCHANGED <<closureVars, readVars, buildVars, templateVars, statVars, walkVars, moreVars>>

\* one call hash_text_key(raw_key)
HashTextKey ==
    /\ Len(hash_log) < MaxHashCalls
    /\ \E raw_key \in HashKeys :
          LET memoized == CacheHas(hash_cache, raw_key)
              result == IF memoized THEN CacheGet(hash_cache, raw_key)
                        ELSE hash_text_key(raw_key)
          IN  /\ hash_cache' = IF memoized THEN CacheTouch(hash_cache, raw_key)
                               ELSE CachePut(hash_cache, raw_key, result)
              /\ hash_log' = Append(hash_log,
                     [key |-> raw_key, result |-> result, memoized |-> memoized,
                      proc |-> hash_proc, lib |-> xxhashAvail, bin |-> xxhsumAvail])
    /\ UNCHANGED <<hash_proc, envVars>>
    /\ HashFrame

\* the server is started again: import xxhash and shutil.which run anew,
\* the cache is empty
ServerRestart ==
    /\ hash_cache # <<>>
    /\ Len(hash_log) < MaxHashCalls
    /\ hash_proc' = hash_proc + 1
    /\ hash_cache' = <<>>
    /\ xxhashAvail' \in BOOLEAN
    /\ xxhsumAvail' \in BOOLEAN
    /\ UNCHANGED hash_log
    /\ HashFrame

HashNext == HashTextKey \/ ServerRestart
SpecHash == HashInit /\ [][HashNext]_vars

\* C12: hash_text_key returns None for a key that is empty once trimmed, the
\* trimmed key itself when it is a decimal numeral (with or without a hash
\* implementation), and for any other key the decimal rendering of the digest
\* of the trimmed key, or None when no implementation is available; nothing else.
C12_HashTextKeyShape ==
    \A i \in DOMAIN hash_log :
        LET e == hash_log[i]
            token == Strip(e.key)
        IN  IF token = <<>> THEN e.result = None
            ELSE IF \A n \in DOMAIN token : token[n] \in Digits THEN e.result = token
            ELSE IF e.lib \/ e.bin THEN e.result = NatToStr(Xxh64(token))
            ELSE e.result = None

\* a key empty once trimmed, a numeral returned with no implementation
\* available, and a digest have all been returned
C12_Witness ==
    /\ \E i \in DOMAIN hash_log : Strip(hash_log[i].key) = <<>> /\ hash_log[i].result = None
    /\ \E i \in DOMAIN hash_log :
          /\ hash_log[i].result = S12
          /\ ~hash_log[i].lib /\ ~hash_log[i].bin
    /\ \E i \in DOMAIN hash_log :
          hash_log[i].key = SNeg12 /\ hash_log[i].result = NatToStr(Xxh64(SNeg12))

\* C13: a raw key gets the same address at every call of one process, the
\* first call and the memoized ones alike, and the address computed by the
\* xxhash module equals the one read from the xxhsum utility.
C13_HashStableAcrossPaths ==
    \A i, j \in DOMAIN hash_log :
        (hash_log[i].key = hash_log[j].key) =>
            /\ (hash_log[i].proc = hash_log[j].proc)
                  => hash_log[i].result = hash_log[j].result
            /\ (hash_log[i].result # None /\ hash_log[j].result # None)
                  => hash_log[i].result = hash_log[j].result

\* one key hashed by the module, answered again from the cache, and hashed by
\* the utility after a restart
C13_Witness ==
    \E i, j, k \in DOMAIN hash_log :
        /\ hash_log[i].key = SNeg12 /\ hash_log[j].key = SNeg12 /\ hash_log[k].key = SNeg12
        /\ hash_log[i].lib /\ ~hash_log[i].memoized
        /\ hash_log[j].memoized /\ hash_log[j].proc = hash_log[i].proc
        /\ ~hash_log[k].lib /\ hash_log[k].bin /\ ~hash_log[k].memoized
        /\ hash_log[k].result # None

-----------------------------------------------------------------------------
(* The rendering the template contract describes, over the pieces of the    *)
(* template: a placeholder is an index piece, then at most one format       *)
(* piece, then at most one percent piece.                                    *)

IsIndexPiece(p) == p[1] = "#"
IsFormatPiece(p) == p[1] = "["
IsPercentPiece(p) == p = <<"%">>

\* the integer nearest to n / unit, the even one of two equally near
Distance(n, m) == IF n >= m THEN n - m ELSE m - n
NearestEven(n, unit) ==
    LET near == {n \div unit, n \div unit + 1} IN
    CHOOSE q \in near :
        /\ \A r \in near : Distance(n, q * unit) <= Distance(n, r * unit)
        /\ (2 * Distance(n, q * unit) = unit) => q % 2 = 0

\* the numeral of q / 10^d with exactly d decimals
Decimal(q, d) ==
    IF d = 0 THEN NatToStr(q)
    ELSE NatToStr(q \div Pow10(d)) \o <<".">> \o LeftPad(NatToStr(q % Pow10(d)), "0", d)

\* the fewest decimals, at most 4, that write n / Scale
FewestDecimals(n) == CHOOSE d \in 0..4 :
    /\ n % Pow10(4 - d) = 0
    /\ \A e \in 0..(d - 1) : n % Pow10(4 - e) # 0

\* a finite value n / Scale presented per format piece fmt (<<>> for none)
Presented(n, fmt) ==
    IF fmt = <<"[", "i", "]">> THEN Decimal(NearestEven(n, Scale), 0)
    ELSE IF fmt = <<"[", "f", "1", "]">> THEN Decimal(NearestEven(n, Scale \div 10), 1)
    ELSE Decimal(n \div Pow10(4 - FewestDecimals(n)), FewestDecimals(n))

RECURSIVE Expected(_, _)
Expected(pieces, params) ==
    IF pieces = <<>> THEN <<>>
    ELSE IF ~IsIndexPiece(Head(pieces)) THEN Head(pieces) \o Expected(Tail(pieces), params)
    ELSE LET idx == CHOOSE d \in 0..9 : DigitChar(d) = Head(pieces)[2]
             r1 == Tail(pieces)
             fmt == IF r1 # <<>> /\ IsFormatPiece(Head(r1)) THEN Head(r1) ELSE <<>>
             r2 == IF fmt # <<>> THEN Tail(r1) ELSE r1
             pct == r2 # <<>> /\ IsPercentPiece(Head(r2))
             r3 == IF pct THEN Tail(r2) ELSE r2
             mark == IF pct THEN <<"%">> ELSE <<>>
         IN  (IF idx \in 1..Len(params)
              THEN Presented(IF pct THEN params[idx] * 100 ELSE params[idx], fmt) \o mark
              ELSE Head(pieces) \o fmt \o mark)
             \o Expected(r3, params)

\* the parameter list holds finite numbers and nulls only
FiniteItems ==
    /\ raw_params # JNull /\ raw_params.k = "text" /\ raw_params.doc.st = "ok"
    /\ IsList(raw_params.doc.data)
    /\ \A i \in DOMAIN raw_params.doc.data.items :
          LET item == raw_params.doc.data.items[i] IN
          item = JNull \/ (item.k = "float" /\ item.v.k = "fin")
\* its numbers, in units of 1/Scale, in order
FiniteParams ==
    LET nums == SelectSeq(raw_params.doc.data.items, LAMBDA item : item # JNull)
    IN  [i \in DOMAIN nums |-> nums[i].v.n]
IndexOf(p) == CHOOSE d \in 0..9 : DigitChar(d) = p[2]
IndexPieces == {i \in DOMAIN segments : IsIndexPiece(segments[i])}
TemplateCall == rendered.called /\ template # None /\ FiniteItems

\* C14: when every placeholder index is within the parameter sequence, each
\* token is replaced by the parameter presented per its format (i: nearest
\* integer; f1: exactly one decimal; none: integral values without a point,
\* others with at most 4 decimals, trailing zeros trimmed), a percent mark
\* scales by 100 and is appended, and the text outside tokens is unchanged.
C14_InRangeTokensFormatted ==
    (/\ TemplateCall
     /\ FiniteParams # <<>>
     /\ \A i \in IndexPieces : IndexOf(segments[i]) \in 1..Len(FiniteParams))
        => /\ ~rendered.raised
           /\ rendered.value = Expected(segments, FiniteParams)

\* a template with text, a placeholder with format and percent mark, rendered
C14_Witness ==
    /\ TemplateCall
    /\ segments = <<<<"#", "1">>, <<"[", "f", "1", "]">>, <<"%">>>>
    /\ FiniteParams = <<25000>>
    /\ rendered.value = <<"2", "5", "0", ".", "0", "%">>

\* C15: a placeholder whose index is 0 or beyond the parameter sequence is
\* left in the output as its whole token (index, format, percent mark) while
\* the placeholders in range are substituted; with an empty parameter
\* sequence the template is returned as it is.
C15_OutOfRangeTokensKept ==
    (/\ TemplateCall
     /\ \/ FiniteParams = <<>>
        \/ \E i \in IndexPieces : IndexOf(segments[i]) \notin 1..Len(FiniteParams))
        => /\ ~rendered.raised
           /\ rendered.value = Expected(segments, FiniteParams)
           /\ FiniteParams = <<>> => rendered.value = template

\* an out-of-range token with a format next to a placeholder in range
C15_Witness ==
    /\ TemplateCall
    /\ segments = <<<<"#", "2">>, <<"[", "i", "]">>, <<"#", "1">>>>
    /\ FiniteParams = <<1250>>
    /\ rendered.value = <<"#", "2", "[", "i", "]", "0", ".", "1", "2", "5">>

-----------------------------------------------------------------------------
(* build_db.py: extract_reference_rows over nested narrative documents      *)

MaxDepth == 2    \* objects nested below the root object

\* $type of an object: absent, a string, or not a string
TypeChoices == {<<>>, <<[name |-> "$type", value |-> JStr(<<"A">>)]>>,
                <<[name |-> "$type", value |-> JStr(<<"B">>)]>>,
                <<[name |-> "$type", value |-> JInt(1)]>>}
\* every object names a timeline, so that it yields a row
Marked(type) == type \o <<[name |-> "TimelineName", value |-> JStr(<<"t">>)]>>

RECURSIVE StoryTrees(_)
StoryTrees(d) ==
    IF d = 0 THEN {JNode(Marked(type)) : type \in TypeChoices}
    ELSE LET below == StoryTrees(d - 1)
             leaves == StoryTrees(0)
         IN  {JNode(Marked(type)) : type \in TypeChoices}
             \cup {JNode(Marked(type) \o <<[name |-> "x", value |-> sub]>>) :
                      type \in TypeChoices, sub \in below}
             \cup {JNode(Marked(type) \o <<[name |-> "l", value |-> JList(<<sub>>)]>>) :
                      type \in TypeChoices, sub \in below}
             \cup {JNode(Marked(type) \o <<[name |-> "x", value |-> leaf],
                                           [name |-> "y", value |-> sub]>>) :
                      type \in TypeChoices, leaf \in leaves, sub \in below}

WalkInit ==
    /\ story_data \in StoryTrees(MaxDepth)
    /\ story_rows = NotCalled
    /\ EnvIdle /\ ClosureIdle /\ ReadIdle /\ BuildIdle /\ TemplateIdle /\ StatIdle /\ HashIdle
    /\ MoreIdle

ExtractReferenceRows ==
    /\ story_rows = NotCalled
    /\ story_rows' = [called |-> TRUE,
                      rows |-> extract_reference_rows(<<"Story", "M1", "a.json">>, story_data)]
    /\ UNCHANGED <<story_data, envVars, closureVars, readVars, buildVars, templateVars,
                   statVars, hashVars, moreVars>>

SpecWalk == WalkInit /\ [][ExtractReferenceRows]_vars

\* the tag of an object below the objects in above (outermost first): its own
\* string $type, else that of the nearest object above that has one
NearestTag(node, above) ==
    LET chain == Append(above, node)
        tagged == {i \in DOMAIN chain : GetF(chain[i], "$type").k = "str"}
    IN  IF tagged = {} THEN None
        ELSE GetF(chain[CHOOSE i \in tagged : \A j \in tagged : j <= i], "$type").s

\* the (path, tag) pairs of all objects of a document
RECURSIVE TagsOf(_, _, _)
TagsOf(node, json_path, above) ==
    IF node.k = "node"
    THEN {[json_path |-> json_path, task_type |-> NearestTag(node, above)]}
         \cup UNION {TagsOf(node.fields[i].value, json_path \o "." \o node.fields[i].name,
                            Append(above, node)) : i \in DOMAIN node.fields}
    ELSE IF node.k = "list"
    THEN UNION {TagsOf(node.items[i], json_path \o "[" \o ToString(i - 1) \o "]", above) :
                   i \in DOMAIN node.items}
    ELSE {}

\* C16: the type tag of every object is its own $type when that is a string
\* and otherwise the tag of its nearest enclosing object that has one (None
\* when there is none); a sibling's tag is never seen, and an array passes
\* the inherited tag on unchanged.
C16_TagFromNearestAncestor ==
    story_rows.called =>
        {[json_path |-> story_rows.rows[i].json_path,
          task_type |-> story_rows.rows[i].task_type] : i \in DOMAIN story_rows.rows}
            = TagsOf(story_data, "$", <<>>)

\* under a root tagged "B", x is tagged "A"; its untagged sibling y and the
\* element of the array in y take "B"
C16_Witness ==
    /\ story_rows.called
    /\ \E h, i, j, k \in DOMAIN story_rows.rows :
          /\ story_rows.rows[h].json_path = "$" /\ story_rows.rows[h].task_type = <<"B">>
          /\ story_rows.rows[i].json_path = "$.x" /\ story_rows.rows[i].task_type = <<"A">>
          /\ story_rows.rows[j].json_path = "$.y" /\ story_rows.rows[j].task_type = <<"B">>
          /\ story_rows.rows[k].json_path = "$.y.l[0]"
          /\ story_rows.rows[k].task_type = <<"B">>
          /\ GetF(GetF(story_data, "y"), "$type") = JNull

-----------------------------------------------------------------------------
(* serve.py: request handlers of the threading server that call
   ensure_lang_loaded, each inside `with self._db(module) as conn:` on a
   connection of its own to the same database file *)

MaxThreads == 2    \* handler threads running at once

Threads == 1..MaxThreads

LoadLangs == {"CHS", "JP"}

\* an INSERT without the ON CONFLICT clause
LoadInsertPlain(tbl, rows) == tbl \o rows

\* the executemany of ensure_lang_loaded: INSERT ... ON CONFLICT(lang, hash)
\* DO UPDATE SET text=excluded.text
LoadInsert(tbl, rows) == UpsertMany(tbl, rows, {"lang", "hash"}, {"text"})

LangRows(tbl, lang) == SelectSeq(tbl, LAMBDA r : r.lang = lang)

LoadResources ==
    {DefaultRes,
     ResWithBad([name \in {"TextMapCHS"} |-> "unparsable"]),
     ResWithBad([name \in {"TextMapMainJP", "TextMapJP"} |-> "missing"])}

LoadTables ==
    {<<>>,
     <<[lang |-> "EN", hash |-> S12, text |-> <<"e">>]>>,
     <<[lang |-> "EN", hash |-> S12, text |-> <<"e">>],
       [lang |-> "CHS", hash |-> S13, text |-> <<"o">>]>>}

HandlerIdle == [pc |-> "idle", lang |-> "", merged |-> <<>>, view |-> <<>>, wrote |-> FALSE]

LoadInit ==
    /\ resources_root \in LoadResources
    /\ fts5Avail = TRUE /\ disk = <<>> /\ dbconn = <<>> /\ text_maps = <<>>
    /\ pc = "idle" /\ ran = <<>> /\ parse_errors = 0
    /\ tm_before \in LoadTables
    /\ tm_file = tm_before
    /\ tm_lock = 0
    /\ handlers = [t \in Threads |-> HandlerIdle]
    /\ EnvIdle /\ ClosureIdle /\ ReadIdle /\ TemplateIdle /\ StatIdle /\ HashIdle /\ WalkIdle
    /\ SearchIdle /\ RefIdle /\ ShardIdle /\ ExportIdle

LoadFrame ==
    UNCHANGED <<tm_before, envVars, closureVars, readVars, buildVars, templateVars, statVars,
                hashVars, walkVars, searchVars, refVars, shardVars, exportVars>>

\* a request arrives: the handler opens its connection and calls
\* ensure_lang_loaded(conn, lang)
HandlerBegin(t) ==
    /\ handlers[t].pc = "idle"
    /\ \E lang \in LoadLangs :
          handlers' = [handlers EXCEPT ![t] = [@ EXCEPT !.pc = "exists", !.lang = lang]]
    /\ UNCHANGED <<tm_file, tm_lock>>
    /\ LoadFrame

\* SELECT 1 FROM text_map WHERE lang=? LIMIT 1: the connection reads the
\* committed rows; a row means the language is loaded and the call returns
HandlerExists(t) ==
    /\ handlers[t].pc = "exists"
    /\ handlers' = [handlers EXCEPT ![t].pc =
                       IF LangRows(tm_file, handlers[t].lang) # <<>> THEN "rest" ELSE "read"]
    /\ UNCHANGED <<tm_file, tm_lock>>
    /\ LoadFrame

\* the two documents are read and merged; nothing merged, the call returns
HandlerRead(t) ==
    /\ handlers[t].pc = "read"
    /\ LET merged == MergedForLang(resources_root, handlers[t].lang)
       IN  handlers' = [handlers EXCEPT ![t] =
                           [@ EXCEPT !.merged = merged,
                                     !.pc = IF merged = <<>> THEN "rest" ELSE "insert"]]
    /\ UNCHANGED <<tm_file, tm_lock>>
    /\ LoadFrame

\* executemany: the connection begins a transaction, takes the write lock of
\* the file and writes the rows on top of the committed ones
HandlerInsert(t) ==
    /\ handlers[t].pc = "insert"
    /\ tm_lock = 0
    /\ tm_lock' = t
    /\ handlers' = [handlers EXCEPT ![t] =
                       [@ EXCEPT !.view = LoadInsert(tm_file,
                                              TextMapRowsOf(handlers[t].lang, handlers[t].merged)),
                                 !.wrote = TRUE,
                                 !.pc = "rest"]]
    /\ UNCHANGED tm_file
    /\ LoadFrame

\* the write lock stayed with another connection for the whole busy timeout:
\* executemany raises OperationalError and the handler's `with` rolls back
HandlerBusy(t) ==
    /\ handlers[t].pc = "insert"
    /\ tm_lock \notin {0, t}
    /\ handlers' = [handlers EXCEPT ![t].pc = "raised"]
    /\ UNCHANGED <<tm_file, tm_lock>>
    /\ LoadFrame

\* the handler answers and leaves its `with` block: the connection commits
HandlerCommit(t) ==
    /\ handlers[t].pc = "rest"
    /\ handlers' = [handlers EXCEPT ![t].pc = "done"]
    /\ IF tm_lock = t
       THEN tm_file' = handlers[t].view /\ tm_lock' = 0
       ELSE UNCHANGED <<tm_file, tm_lock>>
    /\ LoadFrame

LoadNext ==
    \E t \in Threads :
        \/ HandlerBegin(t)
        \/ HandlerExists(t)
        \/ HandlerRead(t)
        \/ HandlerInsert(t)
        \/ HandlerBusy(t)
        \/ HandlerCommit(t)

SpecLoad == LoadInit /\ [][LoadNext]_vars

\* the rows of a language after one call alone on the database as it was
SingleCallRows(lang) ==
    LangRows(ensure_lang_loaded([text_map |-> tm_before], resources_root, lang).text_map, lang)

AllHandlersEnded == \A t \in Threads : handlers[t].pc \in {"done", "raised"}

Returned17(lang) == \E t \in Threads : handlers[t].pc = "done" /\ handlers[t].lang = lang

\* C17: ensure_lang_loaded calls running at once on connections of their own
\* leave text_map as one call alone leaves it. At every moment the committed
\* rows of each language are the rows from before the requests or the rows of
\* a single call (one row per (lang, hash) of the merged documents), so a
\* language nobody asked for keeps its rows; once every handler has ended, each
\* language for which a call returned holds exactly the rows of a single call.
C17_ConcurrentLoadsAsOne ==
    /\ \A lang \in LoadLangs \cup {"EN"} :
          /\ LangRows(tm_file, lang) \in {LangRows(tm_before, lang), SingleCallRows(lang)}
          /\ (\A t \in Threads : handlers[t].lang # lang) =>
                 LangRows(tm_file, lang) = LangRows(tm_before, lang)
    /\ AllHandlersEnded =>
          \A lang \in LoadLangs : Returned17(lang) => LangRows(tm_file, lang) = SingleCallRows(lang)

\* two handlers found the language without rows before either had committed,
\* both wrote its rows (the second on top of the first's), and both have ended
C17_Witness ==
    /\ AllHandlersEnded
    /\ \E t, u \in Threads :
          /\ t # u
          /\ handlers[t].lang = handlers[u].lang
          /\ handlers[t].wrote /\ handlers[u].wrote
          /\ handlers[t].pc = "done" /\ handlers[u].pc = "done"
          /\ Len(handlers[t].merged) = 2
          /\ LangRows(tm_before, "EN") # <<>>

-----------------------------------------------------------------------------
(* serve.py: _api_search_dialogue for the languages stored in talk_sentence *)

MaxSentences == 2    \* rows of talk_sentence

\* a NULL column is None
SentenceShapes ==
    {[speaker_chs |-> None, text_chs |-> <<"b">>, speaker_en |-> None, text_en |-> <<"B">>],
     [speaker_chs |-> <<"a", "b">>, text_chs |-> <<"a", "%">>,
      speaker_en |-> <<"a">>, text_en |-> <<"_">>],
     [speaker_chs |-> <<>>, text_chs |-> <<"a", "_", "b">>,
      speaker_en |-> <<>>, text_en |-> None]}

\* talk_sentence in the order of its primary key
SentenceTables ==
    {[i \in DOMAIN shapes |->
         [talk_sentence_id |-> i,
          speaker_chs |-> shapes[i].speaker_chs, text_chs |-> shapes[i].text_chs,
          speaker_en |-> shapes[i].speaker_en, text_en |-> shapes[i].text_en]] :
        shapes \in SeqsUpTo(SentenceShapes, MaxSentences)}

SearchQueries == {<<>>, <<"a">>, <<"a", "b">>, <<"A">>, <<"%">>, <<"_">>}

\* sqlite compares the ASCII letters of LIKE operands and of FTS tokens
\* without regard to case
FoldChar(c) == CASE c = "A" -> "a" [] c = "B" -> "b" [] OTHER -> c

RECURSIVE LikeMatch(_, _)
\* sqlite's `s LIKE pattern` with no ESCAPE clause, s not NULL: % stands for
\* any run of characters, _ for any one character
LikeMatch(pattern, s) ==
    IF pattern = <<>> THEN s = <<>>
    ELSE IF Head(pattern) = "%"
         THEN LikeMatch(Tail(pattern), s) \/ (s # <<>> /\ LikeMatch(pattern, Tail(s)))
    ELSE IF s = <<>> THEN FALSE
    ELSE IF Head(pattern) = "_" THEN LikeMatch(Tail(pattern), Tail(s))
    ELSE FoldChar(Head(pattern)) = FoldChar(Head(s)) /\ LikeMatch(Tail(pattern), Tail(s))

\* `column LIKE pattern`: NULL for a NULL column, which WHERE takes as false
Like(column, pattern) == column # None /\ LikeMatch(pattern, column)

FtsSeparators == {" ", "%", "_"}

RECURSIVE FtsTokensFrom(_, _)
FtsTokensFrom(s, word) ==
    IF s = <<>> THEN (IF word = <<>> THEN {} ELSE {word})
    ELSE IF Head(s) \in FtsSeparators
         THEN (IF word = <<>> THEN {} ELSE {word}) \cup FtsTokensFrom(Tail(s), <<>>)
    ELSE FtsTokensFrom(Tail(s), Append(word, FoldChar(Head(s))))

\* the tokens fts5 indexes for a column, and reads from a query of barewords
FtsTokens(s) == FtsTokensFrom(s, <<>>)

\* the MATCH query raises OperationalError: there is no talk_sentence_fts, the
\* table cannot be queried, or the query is not fts5 syntax
MatchRaises(fts, fts_q) == fts # "working" \/ \E i \in DOMAIN fts_q : fts_q[i] = "%"

\* talk_sentence_fts MATCH fts_q on the row insert_talk indexed for r
\* (speaker_chs or "", text_chs or ""): every token of the query is a token
\* of the row
FtsMatch(r, fts_q) ==
    LET indexed(column) == IF column = None THEN {} ELSE FtsTokens(column)
    IN  /\ FtsTokens(fts_q) # {}
        /\ FtsTokens(fts_q) \subseteq indexed(r.speaker_chs) \cup indexed(r.text_chs)

\* ORDER BY talk_sentence_id ASC / DESC
OrderById(rows, order) ==
    IF order = "desc" THEN [i \in DOMAIN rows |-> rows[Len(rows) + 1 - i]] ELSE rows

\* LIMIT page_size OFFSET offset
LimitOffset(rows, page_size, offset) ==
    IF offset >= Len(rows) THEN <<>>
    ELSE SubSeq(rows, offset + 1, IF offset + page_size > Len(rows) THEN Len(rows)
                                  ELSE offset + page_size)

\* the selected columns of the rows chosen by keep, ordered and cut to the page
SearchRows(tbl, keep, lang, order, page_size, offset) ==
    LET chosen == OrderById(SelectSeq(tbl, LAMBDA r : r.talk_sentence_id \in keep), order)
        item(r) == [talk_sentence_id |-> r.talk_sentence_id,
                    speaker |-> IF lang = "EN" THEN r.speaker_en ELSE r.speaker_chs,
                    text |-> IF lang = "EN" THEN r.text_en ELSE r.text_chs]
        cut == LimitOffset(chosen, page_size, offset)
    IN  [i \in DOMAIN cut |-> item(cut[i])]

\* the ids of the rows for which WHERE (speaker LIKE ? OR text LIKE ?) holds
LikeIds(tbl, lang, like) ==
    {tbl[i].talk_sentence_id : i \in
        {j \in DOMAIN tbl :
            IF lang = "EN" THEN Like(tbl[j].speaker_en, like) \/ Like(tbl[j].text_en, like)
            ELSE Like(tbl[j].speaker_chs, like) \/ Like(tbl[j].text_chs, like)}}

FtsIds(tbl, fts_q) ==
    {tbl[i].talk_sentence_id : i \in {j \in DOMAIN tbl : FtsMatch(tbl[j], fts_q)}}

\* the items and the total of _api_search_dialogue for lang CHS or EN
api_search_dialogue(tbl, fts, q, lang, order, page, page_size) ==
    LET offset == (page - 1) * page_size
        like == <<"%">> \o q \o <<"%">>
        all == {tbl[i].talk_sentence_id : i \in DOMAIN tbl}
        by_fts == IF MatchRaises(fts, q) THEN {} ELSE FtsIds(tbl, q)
        keep == IF q = <<>> THEN all
                ELSE IF lang = "EN" THEN LikeIds(tbl, lang, like)
                ELSE IF by_fts # {} THEN by_fts
                ELSE LikeIds(tbl, lang, like)
    IN  [items |-> SearchRows(tbl, keep, lang, order, page_size, offset),
         total |-> Cardinality(keep)]

SearchInit ==
    /\ dialogue \in SentenceTables
    /\ fts_state \in {"absent", "failing", "working"}
    /\ search = NotCalled
    /\ EnvIdle /\ ClosureIdle /\ ReadIdle /\ BuildIdle /\ TemplateIdle /\ StatIdle
    /\ HashIdle /\ WalkIdle /\ LoadIdle /\ RefIdle /\ ShardIdle /\ ExportIdle

\* one request GET /api/search/dialogue
ApiSearchDialogue ==
    /\ \E q \in SearchQueries, lang \in {"CHS", "EN"}, order \in {"asc", "desc"},
          page \in {1, 2}, page_size \in {1, 20} :
          search' = [called |-> TRUE, q |-> q, lang |-> lang, order |-> order,
                     page |-> page, page_size |-> page_size,
                     out |-> api_search_dialogue(dialogue, fts_state, q, lang, order,
                                                 page, page_size)]
    /\ UNCHANGED <<dialogue, fts_state, envVars, closureVars, readVars, buildVars,
                   templateVars, statVars, hashVars, walkVars, loadVars, refVars, shardVars,
                   exportVars>>

SpecSearch == SearchInit /\ [][ApiSearchDialogue]_vars

\* q occurs in the column, character for character
ContainsLiteral(column, q) ==
    /\ column # None
    /\ \E i \in 1..(Len(column) + 1) :
          i + Len(q) - 1 <= Len(column) /\ SubSeq(column, i, i + Len(q) - 1) = q

LiteralIds(tbl, lang, q) ==
    {tbl[i].talk_sentence_id : i \in
        {j \in DOMAIN tbl :
            IF lang = "EN"
            THEN ContainsLiteral(tbl[j].speaker_en, q) \/ ContainsLiteral(tbl[j].text_en, q)
            ELSE ContainsLiteral(tbl[j].speaker_chs, q) \/ ContainsLiteral(tbl[j].text_chs, q)}}

\* C18: when talk_sentence_fts is absent or its query fails, a dialogue search
\* with a non-empty q returns exactly the rows whose speaker or text in the
\* requested language contains q as a literal substring (also for q holding %
\* or _): total is their number and the items are their page.
C18_LiteralSubstringSearch ==
    (search.called /\ search.q # <<>> /\ MatchRaises(fts_state, search.q)) =>
        LET ids == LiteralIds(dialogue, search.lang, search.q)
        IN  /\ search.out.total = Cardinality(ids)
            /\ search.out.items =
                   SearchRows(dialogue, ids, search.lang, search.order, search.page_size,
                              (search.page - 1) * search.page_size)

-----------------------------------------------------------------------------
(* build_avatar_level_stats against the per-level reference *)

\* the breakpoint a level takes its values from: of the breakpoints with a
\* ceiling, the one with the least ceiling that is >= level, the earliest
\* given among equals; when the level is above every ceiling, the one with the
\* greatest ceiling, the latest given among equals
ReferenceStage(rows, level) ==
    LET defined == {i \in DOMAIN rows : rows[i].max_level # JNull}
        reach == {i \in defined : rows[i].max_level.n >= level}
        first == CHOOSE i \in reach :
                    \A j \in reach : \/ rows[i].max_level.n < rows[j].max_level.n
                                     \/ (rows[i].max_level.n = rows[j].max_level.n /\ i <= j)
        last == CHOOSE i \in defined :
                    \A j \in defined : \/ rows[i].max_level.n > rows[j].max_level.n
                                       \/ (rows[i].max_level.n = rows[j].max_level.n /\ i >= j)
    IN  IF reach # {} THEN rows[first] ELSE rows[last]

\* base + growth * (level - 1) rounded to 4 decimals, an undefined growth
\* adding nothing; undefined when the base is
ReferenceStat(base, growth, level) ==
    IF base = JNull THEN JNull
    ELSE Round4(JReal(base.n + (IF growth = JNull THEN 0 ELSE growth.n * (level - 1))))

ReferenceLevelStats(rows, max_level) ==
    IF \A i \in DOMAIN rows : rows[i].max_level = JNull THEN <<>>
    ELSE [level \in 1..max_level |->
             LET stage == ReferenceStage(rows, level)
             IN  [level |-> level,
                  promotion |-> stage.promotion,
                  hp |-> ReferenceStat(stage.hp_base, stage.hp_add, level),
                  attack |-> ReferenceStat(stage.attack_base, stage.attack_add, level),
                  defence |-> ReferenceStat(stage.defence_base, stage.defence_add, level),
                  speed |-> stage.speed_base]]

\* C19: build_avatar_level_stats equals the reference: breakpoints without
\* max_level are dropped, none left gives the empty list, otherwise one row
\* per level 1..level_max in increasing order, each from the first breakpoint
\* (ascending by max_level) whose max_level is >= level or from the last one,
\* with hp, attack and defence = base + growth * (level - 1) rounded to 4
\* decimals and speed equal to the stage's speed_base unmodified.
C19_EqualsReference ==
    level_stats.called => level_stats.rows = ReferenceLevelStats(promotions, level_max)

-----------------------------------------------------------------------------
(* parse_param_values on heterogeneous parameter lists *)

MixedItems ==
    {JInt(2), JFloat(Fin(25000)), JStr(<<"3">>), JStr(<<"x">>), JBool(TRUE), JNull,
     JList(<<JInt(4)>>), JValue(JInt(5)), JValue(JStr(<<"6">>)), JValue(JBool(FALSE)),
     JValue(JNull)}

\* the raw argument: absent, a string that is not JSON, JSON that is not a
\* list, a value that is neither a string nor a list, a list as JSON text or
\* as a Python list
MixedParams ==
    {JNull, JText(Doc("unparsable", JNull)), JText(Doc("ok", JValue(JInt(1)))), JInt(7)}
    \cup {JText(Doc("ok", JList(items))) : items \in SeqsUpTo(MixedItems, MaxParams)}
    \cup {JList(items) : items \in SeqsUpTo(MixedItems, MaxParams)}

ParamsInit ==
    /\ template = None
    /\ segments = <<>>
    /\ raw_params \in MixedParams
    /\ rendered = NotCalled
    /\ EnvIdle /\ ClosureIdle /\ ReadIdle /\ BuildIdle /\ StatIdle /\ HashIdle /\ WalkIdle
    /\ MoreIdle

\* one call parse_param_values(raw)
ParseParamValues ==
    /\ rendered = NotCalled
    /\ rendered' = parse_param_values(raw_params)
    /\ UNCHANGED <<template, segments, raw_params, envVars, closureVars, readVars, buildVars,
                   statVars, hashVars, walkVars, moreVars>>

SpecParams == ParamsInit /\ [][ParseParamValues]_vars

\* a bare number or a numeric string
IsNumeric(v) == v.k \in {"int", "float"} \/ (v.k = "str" /\ ~PyFloat(v.s).raised)

NumericValue(v) ==
    CASE v.k = "int" -> Fin(v.n * Scale)
      [] v.k = "float" -> v.v
      [] OTHER -> PyFloat(v.s).value

RECURSIVE NumericValues(_)
\* the values of the elements that are numeric or wrap a numeric Value, in
\* order; every other element gives nothing
NumericValues(items) ==
    IF items = <<>> THEN <<>>
    ELSE LET item == Head(items)
             held == IF item.k = "dict" THEN Get(item, "Value") ELSE item
         IN  (IF IsNumeric(held) THEN <<NumericValue(held)>> ELSE <<>>)
                 \o NumericValues(Tail(items))

\* the list the raw argument holds, or no list
ListOf(raw) ==
    IF raw.k = "list" THEN raw
    ELSE IF raw.k = "text" /\ ~LoadRaises(raw.doc) /\ IsList(raw.doc.data) THEN raw.doc.data
    ELSE JNull

\* C20: parse_param_values returns, in input order, one value for every list
\* element that is a bare number, a numeric string or a Value wrapper holding
\* one of those, and nothing for every other element (booleans, nulls,
\* non-numeric strings, nested lists); a raw input that is absent, not a list
\* or an unparseable string gives the empty sequence.
C20_NumericValuesInOrder ==
    rendered.called =>
        /\ ~rendered.raised
        /\ rendered.value = (IF ListOf(raw_params) = JNull THEN <<>>
                             ELSE NumericValues(ListOf(raw_params).items))

-----------------------------------------------------------------------------
(* build_db.py: extract_reference_rows, what one object yields *)

MaxSiblings == 2    \* elements of the array below the root

\* a field that is absent (no value) or holds the value given
Field(name, choice) == [i \in DOMAIN choice |-> [name |-> name, value |-> choice[i]]]

TwoMatches ==
    TalkSentencePrefix \o <<"x">> \o TalkSentencePrefix \o <<"0", "8">> \o TalkSentencePrefix
        \o <<"9">>

IdChoices == {<<>>, <<JInt(0)>>, <<JInt(3)>>, <<JStr(<<"5">>)>>, <<JStr(<<"x">>)>>}
TriggerChoices ==
    {<<>>, <<JStr(TalkString)>>, <<JStr(<<"t">>)>>, <<JStr(<<>>)>>,
     <<JNode(<<[name |-> "Value", value |-> JStr(TwoMatches)]>>)>>}
CustomChoices == {<<>>, <<JStr(TalkSentencePrefix \o <<"9">>)>>, <<JStr(<<"c">>)>>}
TimelineChoices == {<<>>, <<JStr(<<"t">>)>>, <<JStr(<<>>)>>}
PerfTypeChoices == {<<>>, <<JStr(<<"p">>)>>}
PerfIdChoices == {<<>>, <<JInt(0)>>}
TagChoices == {<<>>, <<JStr(<<"A">>)>>}

\* documents that are one object
SingleNodes ==
    {JNode(Field("$type", tag) \o Field("TalkSentenceID", id)
           \o Field("TriggerCustomString", trigger) \o Field("CustomString", custom)
           \o Field("TimelineName", timeline) \o Field("PerformanceType", perf_type)
           \o Field("PerformanceID", perf_id)) :
        tag \in TagChoices, id \in IdChoices, trigger \in TriggerChoices,
        custom \in CustomChoices, timeline \in TimelineChoices,
        perf_type \in PerfTypeChoices, perf_id \in PerfIdChoices}

Timed == JNode(Field("TimelineName", <<JStr(<<"t">>)>>))
IdZero == JNode(Field("TalkSentenceID", <<JInt(0)>>))

\* what an array may hold: scalars, objects with and without content, arrays
SiblingShapes ==
    {JInt(0), JStr(TalkString), JNode(<<>>), Timed, IdZero, JList(<<Timed>>)}

\* a tagged root without content above an array
ArrayDocs ==
    {JNode(Field("$type", <<JStr(<<"A">>)>>) \o Field("l", <<JList(items)>>)) :
        items \in SeqsUpTo(SiblingShapes, MaxSiblings)}

\* two objects whose JSON paths are written alike: $.x.y
SamePathDocs ==
    {JNode(Field("x.y", <<a>>) \o Field("x", <<JNode(Field("y", <<b>>))>>)) :
        a \in {Timed, IdZero}, b \in {Timed, IdZero}}

NodesInit ==
    /\ story_data \in SingleNodes \cup ArrayDocs \cup SamePathDocs
    /\ story_rows = NotCalled
    /\ EnvIdle /\ ClosureIdle /\ ReadIdle /\ BuildIdle /\ TemplateIdle /\ StatIdle /\ HashIdle
    /\ MoreIdle

SpecNodes == NodesInit /\ [][ExtractReferenceRows]_vars

\* the objects of a document with their JSON paths
RECURSIVE NodesOf(_, _)
NodesOf(node, json_path) ==
    IF node.k = "node"
    THEN {[json_path |-> json_path, node |-> node]}
         \cup UNION {NodesOf(node.fields[i].value, json_path \o "." \o node.fields[i].name) :
                        i \in DOMAIN node.fields}
    ELSE IF node.k = "list"
    THEN UNION {NodesOf(node.items[i], json_path \o "[" \o ToString(i - 1) \o "]") :
                   i \in DOMAIN node.items}
    ELSE {}

\* the number after the leftmost "TalkSentence_" that a digit follows: all the
\* digits up to the first character that is not one; JNull without a match
FirstTalkSentence(s) ==
    LET n == Len(TalkSentencePrefix)
        at(i) == /\ i + n <= Len(s)
                 /\ \A k \in 1..n : s[i + k - 1] = TalkSentencePrefix[k]
                 /\ s[i + n] \in Digits
        starts == {i \in 1..Len(s) : at(i)}
        first == CHOOSE i \in starts : \A j \in starts : i <= j
        stop == CHOOSE j \in (first + n)..Len(s) :
                    /\ \A k \in (first + n)..j : s[k] \in Digits
                    /\ (j = Len(s) \/ s[j + 1] \notin Digits)
    IN  IF s = None \/ starts = {} THEN JNull
        ELSE JInt(StrToNat(SubSeq(s, first + n, stop)))

\* the id the claim gives an object: its own, else from the trigger string,
\* else from the custom string
TalkIdByPriority(node) ==
    LET own == to_int(GetF(node, "TalkSentenceID"))
        trigger == FirstTalkSentence(as_custom(GetF(node, "TriggerCustomString")))
        custom == FirstTalkSentence(as_custom(GetF(node, "CustomString")))
    IN  IF own # JNull THEN own ELSE IF trigger # JNull THEN trigger ELSE custom

RowsAt(json_path) ==
    {i \in DOMAIN story_rows.rows : story_rows.rows[i].json_path = json_path}

\* C21: the dialogue-line id of a row is the object's own TalkSentenceID when
\* that is a number; otherwise the first TalkSentence_<digits> of the trigger
\* string; otherwise, the trigger string having no match, the first match of
\* the custom string; a match in the custom string never overrides one in the
\* trigger string, and neither string overrides an own id.
C21_TalkIdPriority ==
    (story_rows.called /\ story_data \in SingleNodes) =>
        \A i \in DOMAIN story_rows.rows :
            story_rows.rows[i].talk_sentence_id = TalkIdByPriority(story_data)

\* an object whose TalkSentenceID is not a number and whose two strings both
\* match: the id is the first match of the trigger string, 8 written "08"
C21_Witness ==
    /\ story_rows.called /\ story_data \in SingleNodes /\ Len(story_rows.rows) = 1
    /\ as_custom(GetF(story_data, "CustomString")) = TalkSentencePrefix \o <<"9">>
    /\ as_custom(GetF(story_data, "TriggerCustomString")) = TwoMatches
    /\ GetF(story_data, "TalkSentenceID") = JStr(<<"x">>)
    /\ story_rows.rows[1].talk_sentence_id = JInt(8)

\* a field counted as present whenever it holds a value of its kind
PresentAsValue(node) ==
    \/ TalkIdByPriority(node) # JNull
    \/ GetF(node, "TimelineName").k = "str"
    \/ GetF(node, "PerformanceType").k = "str"
    \/ to_int(GetF(node, "PerformanceID")) # JNull
    \/ as_custom(GetF(node, "TriggerCustomString")) # None
    \/ as_custom(GetF(node, "CustomString")) # None

\* a string field counted as present only when it is not empty
PresentNonEmpty(node) ==
    \/ TalkIdByPriority(node) # JNull
    \/ (GetF(node, "TimelineName").k = "str" /\ GetF(node, "TimelineName").s # <<>>)
    \/ (GetF(node, "PerformanceType").k = "str" /\ GetF(node, "PerformanceType").s # <<>>)
    \/ to_int(GetF(node, "PerformanceID")) # JNull
    \/ as_custom(GetF(node, "TriggerCustomString")) \notin {None, <<>>}
    \/ as_custom(GetF(node, "CustomString")) \notin {None, <<>>}

RowKey(r) ==
    <<r.json_path, r.task_type, r.talk_sentence_id, r.timeline_name, r.performance_type,
      r.performance_id, r.trigger_custom_string, r.custom_string>>

\* C22: the rows of one document never hold the same tuple (json path, type
\* tag, dialogue id, timeline, performance type, performance id, trigger
\* string, custom string) twice, and objects with content at different JSON
\* paths have a row each, identical content or not.
C22_NoDuplicateRows ==
    story_rows.called =>
        /\ \A i, j \in DOMAIN story_rows.rows :
              RowKey(story_rows.rows[i]) = RowKey(story_rows.rows[j]) => i = j
        /\ \A n \in NodesOf(story_data, "$") :
              PresentNonEmpty(n.node) => RowsAt(n.json_path) # {}

\* two objects with the same content in one array have a row each
C22_Witness ==
    /\ story_rows.called /\ story_data \in ArrayDocs
    /\ \E i, j \in DOMAIN story_rows.rows :
          /\ story_rows.rows[i].json_path = "$.l[0]"
          /\ story_rows.rows[j].json_path = "$.l[1]"
          /\ [story_rows.rows[i] EXCEPT !.json_path = ""]
                 = [story_rows.rows[j] EXCEPT !.json_path = ""]

RowPaths == {story_rows.rows[i].json_path : i \in DOMAIN story_rows.rows}

\* C23: an object is emitted if and only if at least one of dialogue-line id,
\* timeline name, performance type, performance id, trigger string, custom
\* string is present on it (an id of 0 counts); arrays and scalars are never
\* emitted, nor is an object for its inherited type tag alone.
C23_EmittedIffPresent ==
    story_rows.called =>
        RowPaths = {n.json_path : n \in {m \in NodesOf(story_data, "$") : PresentAsValue(m.node)}}

\* C23 (amended): as C23, a string field counting as present only when it is
\* a non-empty string.
C23_EmittedIffNonEmpty ==
    story_rows.called =>
        RowPaths = {n.json_path : n \in {m \in NodesOf(story_data, "$") : PresentNonEmpty(m.node)}}

\* below a tagged root without a row, an array holds a scalar and an object
\* whose only content is the id 0: the object alone has a row
C23_Witness ==
    /\ story_rows.called /\ story_data \in ArrayDocs
    /\ GetF(story_data, "l").items = <<JStr(TalkString), IdZero>>
    /\ RowPaths = {"$.l[1]"}
    /\ story_rows.rows[1].talk_sentence_id = JInt(0)
    /\ story_rows.rows[1].task_type = <<"A">>

-----------------------------------------------------------------------------
(* build_db.py: insert_story_references on a new store, one file after the
   other *)

MaxFiles == 3       \* narrative files found by iter_reference_files
FlushLimit == 3     \* the threshold of the batch, narrowed from BatchLimit

\* the path of the i-th file, relative to the resources root
RefPath(i) == <<"Story", "M1", ToString(i) \o ".json">>

\* a file that does not parse, and documents yielding 0, 1 and 2 rows
RefDocs == {Doc("unparsable", JNull), Doc("ok", JInt(0)), Doc("ok", Timed),
            Doc("ok", JList(<<Timed, IdZero>>))}

RefInit ==
    /\ ref_files \in SeqsUpTo(RefDocs, MaxFiles)
    /\ ref_loop = NotCalled
    /\ EnvIdle /\ ClosureIdle /\ ReadIdle /\ BuildIdle /\ TemplateIdle /\ StatIdle
    /\ HashIdle /\ WalkIdle /\ LoadIdle /\ SearchIdle /\ ShardIdle /\ ExportIdle

RefFrame ==
    UNCHANGED <<ref_files, envVars, closureVars, readVars, buildVars, templateVars, statVars,
                hashVars, walkVars, loadVars, searchVars, shardVars, exportVars>>

\* insert_story_references is called: the files are listed, the counters and
\* the batch start empty
RefBegin ==
    /\ ref_loop = NotCalled
    /\ ref_loop' = [called |-> TRUE, pc |-> "loop", done |-> 0, st |-> StoryStart(<<>>),
                    held |-> <<>>]
    /\ RefFrame

\* one pass of the loop; held keeps the batch as it was after batch.extend
RefFile ==
    /\ ref_loop.called /\ ref_loop.pc = "loop"
    /\ ref_loop.done < Len(ref_files)
    /\ LET i == ref_loop.done + 1
           doc == ref_files[i]
       IN  ref_loop' = [ref_loop EXCEPT
                           !.done = i,
                           !.st = StoryStep(@, RefPath(i), doc, FlushLimit),
                           !.held = IF LoadRaises(doc) THEN ref_loop.st.batch
                                    ELSE ref_loop.st.batch
                                             \o extract_reference_rows(RefPath(i), doc.data)]
    /\ RefFrame

\* after the last file: what is left in the batch is written and the counts
\* are returned
RefReturn ==
    /\ ref_loop.called /\ ref_loop.pc = "loop"
    /\ ref_loop.done = Len(ref_files)
    /\ ref_loop' = [ref_loop EXCEPT
                       !.pc = "returned",
                       !.st = [@ EXCEPT !.table = InsertAutoMany(@, ref_loop.st.batch)]]
    /\ RefFrame

RefNext == RefBegin \/ RefFile \/ RefReturn

SpecRefs == RefInit /\ [][RefNext]_vars

RefReturned == ref_loop.called /\ ref_loop.pc = "returned"

\* the rows of the files 1..n that load, file after file
RECURSIVE RowsOfFiles(_)
RowsOfFiles(n) ==
    IF n = 0 THEN <<>>
    ELSE RowsOfFiles(n - 1)
             \o (IF ref_files[n].st = "ok"
                 THEN extract_reference_rows(RefPath(n), ref_files[n].data) ELSE <<>>)

RowsWithoutId(tbl) == [i \in DOMAIN tbl |-> WithoutId(tbl[i])]

FailedFiles(n) == {i \in 1..n : ref_files[i].st # "ok"}

\* C24: a narrative file whose loading fails is skipped: it adds exactly one
\* to parse_errors and no row, the call still returns, and the rows of every
\* other file, before and after it, are extracted and inserted.
C24_FailedFileSkipped ==
    /\ (ref_loop.called /\ ref_loop.pc = "loop") =>
          ref_loop.st.parse_errors = Cardinality(FailedFiles(ref_loop.done))
    /\ RefReturned =>
          /\ ref_loop.st.parse_errors = Cardinality(FailedFiles(Len(ref_files)))
          /\ \A i \in DOMAIN ref_files :
                LET mine == SelectSeq(RowsWithoutId(ref_loop.st.table),
                                      LAMBDA r : r.source_path = RefPath(i))
                IN  mine = (IF ref_files[i].st = "ok"
                            THEN extract_reference_rows(RefPath(i), ref_files[i].data)
                            ELSE <<>>)

\* the second of three files does not load; the rows of the first and of the
\* third are in the table
C24_Witness ==
    /\ RefReturned
    /\ Len(ref_files) = 3
    /\ ref_files[2].st = "unparsable"
    /\ ref_loop.st.parse_errors = 1
    /\ \E i, j \in DOMAIN ref_loop.st.table :
          /\ ref_loop.st.table[i].source_path = RefPath(1)
          /\ ref_loop.st.table[j].source_path = RefPath(3)

\* C25: the rows of one document are written to the store before the next
\* document begins, and rows of two documents are never pending together.
C25_WrittenBeforeNext ==
    (ref_loop.called /\ ref_loop.pc = "loop") =>
        /\ ref_loop.st.batch = <<>>
        /\ \A i, j \in DOMAIN ref_loop.held :
              ref_loop.held[i].source_path = ref_loop.held[j].source_path

\* C26: when insert_story_references returns, every row extracted from every
\* file that loads is in story_reference exactly once and in extraction
\* order, the batch has been written, and the count returned is the number of
\* rows inserted, wherever the rows of the files fall about the threshold.
C26_AllRowsInsertedOnce ==
    RefReturned =>
        /\ RowsWithoutId(ref_loop.st.table) = RowsOfFiles(Len(ref_files))
        /\ ref_loop.st.total_rows = Len(ref_loop.st.table)

\* the threshold is met in the middle of the files: a batch of rows from two
\* files is written in the loop, the rest on return
C26_Witness ==
    /\ RefReturned
    /\ Len(ref_files) = 3
    /\ ref_files[1] = Doc("ok", Timed)
    /\ ref_files[2] = Doc("ok", JList(<<Timed, IdZero>>))
    /\ ref_files[3] = Doc("ok", Timed)
    /\ Len(ref_loop.st.table) = 4
    /\ ref_loop.st.total_rows = 4

-----------------------------------------------------------------------------
(* build_module_dbs.py: the per-module stores split from the committed main
   database, and the serve.py handlers that open them *)

MaxShardItems == 1    \* item definitions of ItemConfig besides the one of ItemConfigAvatar

S14 == <<"1", "4">>

\* the text fields of an item definition: null, an address whose CHS text is
\* "c", an address whose CHS text is the empty string
ShardTextChoices == {JNull, JHash(JInt(12)), JHash(JInt(14))}

ShardItemDefs(id) ==
    {[k |-> "dict", ID |-> JInt(id), Rarity |-> JStr(<<"R">>),
      ItemName |-> n, ItemDesc |-> d, ItemBGDesc |-> b] :
        n \in ShardTextChoices, d \in ShardTextChoices, b \in ShardTextChoices}

\* ItemConfig lists MaxShardItems definitions, of the ids 2, 3, ...
ShardItemLists == {items \in [1..MaxShardItems -> UNION {ShardItemDefs(id) : id \in 2..(MaxShardItems + 1)}] :
                      \A i \in 1..MaxShardItems : items[i].ID = JInt(i + 1)}

ShardResources ==
    {[DefaultRes EXCEPT
        !["TextMapCHS"] = Doc("ok", JMap(DefaultData("TextMapCHS").entries
                                          \o <<[k |-> S14, v |-> JStr(<<>>)]>>)),
        !["ItemConfig"] = Doc("ok", JList(items))] : items \in ShardItemLists}

\* main's loop over the modules, with the default --modules
ModuleOrder == <<"avatar", "dialogue", "mission", "item", "monster">>

\* the tables copy_module_tables copies whole
ShardTables(m) ==
    CASE m = "avatar" -> {"meta", "avatar", "avatar_promotion", "avatar_skill", "avatar_rank"}
      [] m = "dialogue" -> {"meta", "talk_sentence", "talk_sentence_multi_voice"}
      [] m = "mission" -> {"meta", "main_mission", "sub_mission", "mission_pack_link"}
      [] m = "item" -> {"meta", "item"}
      [] OTHER -> {"meta"}

\* source_path LIKE 'Story/Mission/%' OR source_path LIKE 'Config/Level/Mission/%'
IsMissionPath(parts) ==
    \/ Len(parts) > 2 /\ SubSeq(parts, 1, 2) = <<"Story", "Mission">>
    \/ Len(parts) > 3 /\ SubSeq(parts, 1, 3) = <<"Config", "Level", "Mission">>

\* copy_module_tables(conn, module) with source attached as src; the mission
\* module also gets the story_reference rows of mission paths, numbered anew
CopyModuleTables(conn, source, m) ==
    LET copied == [t \in DOMAIN conn |-> IF t \in ShardTables(m) THEN source[t] ELSE conn[t]]
        refs == SelectSeq(source.story_reference, LAMBDA r : IsMissionPath(r.source_path))
    IN  IF m = "mission"
        THEN [copied EXCEPT !.story_reference =
                 InsertAutoMany(<<>>, [i \in DOMAIN refs |-> WithoutId(refs[i])])]
        ELSE copied

\* COALESCE(x, '')
Coalesce(v) == IF v = None THEN <<>> ELSE v

\* INSERT INTO x_fts(rowid, ...) SELECT id, COALESCE(text, '') FROM x
FtsFromTable(tbl, id_col, text_col) ==
    [i \in DOMAIN tbl |-> [rowid |-> tbl[i][id_col], text |-> Coalesce(tbl[i][text_col])]]

\* SELECT item_id, COALESCE(item_name_chs, ''), COALESCE(item_desc_chs, '') FROM item
ItemFtsFromTable(tbl) ==
    [i \in DOMAIN tbl |-> [rowid |-> tbl[i].item_id,
                           text |-> Coalesce(tbl[i].item_name_chs),
                           description |-> Coalesce(tbl[i].item_desc_chs)]]

\* rebuild_fts_for_module: without FTS5 the OperationalError is swallowed
rebuild_fts_for_module(conn, m, fts5) ==
    IF ~fts5 THEN conn
    ELSE CASE m = "avatar" ->
                [conn EXCEPT !.avatar_fts = FtsFromTable(conn.avatar, "avatar_id", "name_chs")]
           [] m = "dialogue" ->
                [conn EXCEPT !.talk_sentence_fts =
                    FtsFromTable(conn.talk_sentence, "talk_sentence_id", "text_chs")]
           [] m = "mission" ->
                [conn EXCEPT !.mission_fts =
                    FtsFromTable(conn.main_mission, "main_mission_id", "name_chs")]
           [] m = "item" -> [conn EXCEPT !.item_fts = ItemFtsFromTable(conn.item)]
           [] OTHER -> conn

\* update_meta: table_counts and module_profile replace the copied keys
update_meta(conn, m) ==
    LET counted == {"text_map", "talk_sentence", "story_reference", "main_mission",
                    "sub_mission", "avatar", "avatar_skill", "avatar_rank", "item"}
    IN  write_meta(conn, <<[key |-> "table_counts",
                            value |-> [t \in counted |-> Len(conn[t])]],
                           [key |-> "module_profile", value |-> [module |-> m]]>>)

\* build_one_module with with_text_map false (--text-map-modules empty):
\* create_schema, copy_module_tables, rebuild_fts_for_module, update_meta, commit
BuildModuleStore(source, m, fts5) ==
    update_meta(rebuild_fts_for_module(CopyModuleTables(EmptyStore, source, m), m, fts5), m)

\* _db(module): the module's store when the server was given one, else the default
Db(m) == IF m \in db_paths THEN stores[m] ELSE disk.tables

\* the response of _api_avatar_detail computed on conn
AvatarDetail(conn, avatar_id) ==
    LET found == SelectSeq(conn.avatar, LAMBDA r : r.avatar_id = JInt(avatar_id))
    IN  IF found = <<>> THEN [error |-> "not_found"]
        ELSE [error |-> "", avatar |-> found[1],
              promotions |-> SelectSeq(conn.avatar_promotion,
                                       LAMBDA r : r.avatar_id = JInt(avatar_id))]

\* the response of _api_item_detail computed on conn
ItemDetail(conn, item_id) ==
    LET found == SelectSeq(conn.item, LAMBDA r : r.item_id = JInt(item_id))
    IN  IF found = <<>> THEN [error |-> "not_found"] ELSE [error |-> "", item |-> found[1]]

\* the response of _api_item_facets computed on conn:
\* SELECT DISTINCT rarity FROM item WHERE rarity IS NOT NULL AND rarity != ''
ItemFacets(conn) ==
    [rarity |-> {conn.item[i].rarity : i \in {j \in DOMAIN conn.item :
                                                 Truthy(conn.item[j].rarity)}}]

\* with self._db("item") as conn
api_avatar_detail(avatar_id) == AvatarDetail(Db("item"), avatar_id)
\* with self._db("item") as conn
api_item_detail(item_id) == ItemDetail(Db("item"), item_id)
\* with self._db("monster") as conn
api_item_facets == ItemFacets(Db("monster"))

ShardInit ==
    /\ resources_root \in ShardResources
    /\ fts5Avail \in BOOLEAN
    /\ disk = File(TRUE, EmptyStore)
    /\ dbconn = EmptyStore
    /\ text_maps = load_text_maps(resources_root)
    /\ pc = "text_map"
    /\ ran = [s \in StepNames |-> 0]
    /\ parse_errors = 0
    /\ stores = [m \in MODULES |-> NoStore]
    /\ db_paths = {}
    /\ request = NotCalled
    /\ EnvIdle /\ ClosureIdle /\ ReadIdle /\ TemplateIdle /\ StatIdle
    /\ HashIdle /\ WalkIdle /\ LoadIdle /\ SearchIdle /\ RefIdle /\ ExportIdle

ShardFrame ==
    UNCHANGED <<envVars, closureVars, readVars, buildVars, templateVars, statVars,
                hashVars, walkVars, loadVars, searchVars, refVars, exportVars>>

\* build_module_dbs.py main: the next module of the loop is built from the
\* committed main database
BuildNextModule ==
    /\ pc = "done" /\ db_paths = {}
    /\ \E i \in DOMAIN ModuleOrder :
          /\ stores[ModuleOrder[i]] = NoStore
          /\ \A j \in 1..(i - 1) : stores[ModuleOrder[j]] # NoStore
          /\ stores' = [stores EXCEPT ![ModuleOrder[i]] =
                           BuildModuleStore(disk.tables, ModuleOrder[i], fts5Avail)]
    /\ UNCHANGED <<db_paths, request>>
    /\ ShardFrame

\* serve.py run: the default database exists; every module path given exists
ServerRun ==
    /\ pc = "done" /\ db_paths = {}
    /\ \E db_module_paths \in {{}, {"item"}, MODULES} :
          /\ \A m \in db_module_paths : stores[m] # NoStore
          /\ db_paths' = {"default"} \cup db_module_paths
    /\ UNCHANGED <<stores, request>>
    /\ ShardFrame

Respond(handler, arg, response) ==
    /\ db_paths # {}
    /\ request' = [called |-> TRUE, handler |-> handler, arg |-> arg, response |-> response]
    /\ UNCHANGED <<stores, db_paths>>
    /\ ShardFrame

ApiAvatarDetail == \E id \in 1..2 : Respond("avatar_detail", id, api_avatar_detail(id))
ApiItemDetail == \E id \in 1..2 : Respond("item_detail", id, api_item_detail(id))
ApiItemFacets == Respond("item_facets", 0, api_item_facets)

ShardNext ==
    \/ IngestionStep
    \/ WriteMetaCommit
    \/ BuildNextModule
    \/ ServerRun
    \/ ApiAvatarDetail
    \/ ApiItemDetail
    \/ ApiItemFacets

SpecShards == ShardInit /\ [][ShardNext]_vars

\* the index table of a module's entity table
FtsTableOf(m) ==
    CASE m = "avatar" -> "avatar_fts"
      [] m = "dialogue" -> "talk_sentence_fts"
      [] m = "mission" -> "mission_fts"
      [] OTHER -> "item_fts"

\* the same entries, one per rowid
SameIndex(a, b) == Len(a) = Len(b) /\ {a[i] : i \in DOMAIN a} = {b[i] : i \in DOMAIN b}

\* C27: the index rebuild_fts_for_module writes for a module holds, for every
\* entity row, one entry keyed by the entity id whose content is the content
\* the main build indexed for that row (for items: name and description).
C27_RebuiltIndexEqualsMain ==
    \A m \in MODULES \ {"monster"} :
        stores[m] # NoStore =>
            SameIndex(stores[m][FtsTableOf(m)], disk.tables[FtsTableOf(m)])

\* the server was given a store for every module
AllStoresConfigured == db_paths = {"default"} \cup MODULES

\* C28: with a store configured for every module, a handler answers from a
\* store that holds the tables it queries: its response is the one computed
\* on the source database, so an avatar or item of the source is found.
C28_HandlersOpenTheirTables ==
    (AllStoresConfigured /\ request.called) =>
        /\ request.handler = "avatar_detail" =>
              request.response = AvatarDetail(disk.tables, request.arg)
        /\ request.handler = "item_detail" =>
              request.response = ItemDetail(disk.tables, request.arg)
        /\ request.handler = "item_facets" =>
              request.response = ItemFacets(disk.tables)

-----------------------------------------------------------------------------
(* scripts/export_sqlite_dump.py: the D1-compatible export.  A line is kept
   as its tokens: words (maximal runs of word characters), single blanks and
   punctuation marks; a statement is kept as the lines splitlines gives. *)

MaxStatements == 2    \* statements yielded by iterdump_prefixed

\* re.IGNORECASE on the words that occur below in lower case
UpperWord(w) ==
    CASE w = "commit" -> "COMMIT"
      [] w = "fts5" -> "FTS5"
      [] w = "end" -> "END"
      [] w = "sqlite_sequence" -> "SQLITE_SEQUENCE"
      [] OTHER -> w

\* the first position from i on that holds no blank
RECURSIVE SkipBlanks(_, _)
SkipBlanks(text, i) ==
    IF i <= Len(text) /\ text[i] = " " THEN SkipBlanks(text, i + 1) ELSE i

\* words[1] \s+ words[2] \s+ ... matches at position i
RECURSIVE PhraseAt(_, _, _)
PhraseAt(text, i, words) ==
    IF words = <<>> THEN TRUE
    ELSE /\ i <= Len(text)
         /\ UpperWord(text[i]) = Head(words)
         /\ \/ Tail(words) = <<>>
            \/ LET j == SkipBlanks(text, i + 1)
               IN  j > i + 1 /\ PhraseAt(text, j, Tail(words))

\* a pattern anchored with ^\s* on stripped text
StartsPhrase(text, words) == PhraseAt(text, 1, words)
\* a pattern searched anywhere
HasPhrase(text, words) == \E i \in DOMAIN text : PhraseAt(text, i, words)

\* the table names used: an ordinary table, an FTS shadow table, an FTS
\* table of a prefixed database
ShadowWords == {"t_fts_data", "t_fts_idx", "t_fts_docsize", "t_fts_config"}
PrefixedFtsWords == {"a__t_fts", "a__t_fts_data"}

\* FTS_SKIP_PATTERNS_D1
FtsSkip(text) ==
    \/ \E i \in DOMAIN text : text[i] \in PrefixedFtsWords \cup ShadowWords
    \/ HasPhrase(text, <<"FTS5">>)
    \/ \E i \in DOMAIN text :
          UpperWord(text[i]) = "TOKENIZE" /\ SkipBlanks(text, i + 1) <= Len(text)
          /\ text[SkipBlanks(text, i + 1)] = "="

\* D1_SKIP_PATTERNS
D1Skip(text) ==
    \/ StartsPhrase(text, <<"PRAGMA">>)
    \/ HasPhrase(text, <<"BEGIN", "TRANSACTION">>)
    \/ HasPhrase(text, <<"COMMIT">>)
    \/ HasPhrase(text, <<"ROLLBACK">>)
    \/ HasPhrase(text, <<"SAVEPOINT">>)
    \/ HasPhrase(text, <<"VACUUM">>)

\* END_SEMI_RE: \bEND\s*;\s*$ on stripped text
EndSemi(text) ==
    /\ Len(text) >= 2 /\ text[Len(text)] = ";"
    /\ \E i \in 1..(Len(text) - 1) :
          UpperWord(text[i]) = "END" /\ SkipBlanks(text, i + 1) = Len(text)

\* the double quote mark
DQ == "dq"

\* ^\s*INSERT\s+INTO\s+ an optional quote, then the name
InsertsInto(text, name) ==
    /\ StartsPhrase(text, <<"INSERT", "INTO">>)
    /\ LET j == SkipBlanks(text, SkipBlanks(text, 2) + 1)
           n == IF j <= Len(text) /\ text[j] \in {DQ, "["} THEN j + 1 ELSE j
       IN  n <= Len(text) /\ UpperWord(text[n]) = name

\* d1_filter_line(line, in_trigger_block): the text written, or None, and
\* the new in_trigger_block
d1_filter_line(line, in_trigger_block) ==
    LET text == Strip(line)
        skip == [text |-> None, block |-> in_trigger_block]
    IN  IF text = <<>> THEN skip
        ELSE IF in_trigger_block
             THEN [text |-> None, block |-> ~EndSemi(text)]
        ELSE IF text[1] = "." THEN skip
        ELSE IF FtsSkip(text) THEN skip
        ELSE IF StartsPhrase(text, <<"CREATE", "TRIGGER">>)
             THEN [text |-> None, block |-> ~EndSemi(text)]
        ELSE IF StartsPhrase(text, <<"CREATE", "VIEW">>) THEN skip
        ELSE IF StartsPhrase(text, <<"CREATE", "VIRTUAL", "TABLE">>) THEN skip
        ELSE IF \/ InsertsInto(text, "sqlite_master")
                \/ StartsPhrase(text, <<"DELETE", "FROM", "sqlite_master">>)
                \/ StartsPhrase(text, <<"UPDATE", "sqlite_master">>) THEN skip
        ELSE IF \/ HasPhrase(text, <<"CREATE", "TRIGGER">>)
                \/ HasPhrase(text, <<"CREATE", "VIEW">>)
                \/ HasPhrase(text, <<"CREATE", "VIRTUAL", "TABLE">>) THEN skip
        ELSE IF StartsPhrase(text, <<"CREATE", "TABLE", "SQLITE_SEQUENCE">>) THEN skip
        ELSE IF InsertsInto(text, "SQLITE_SEQUENCE") THEN skip
        ELSE IF D1Skip(text) THEN skip
        ELSE [text |-> text, block |-> in_trigger_block]

\* the loop over the lines of one statement: each kept line is written
RECURSIVE FilterLines(_, _)
FilterLines(st, lines) ==
    IF lines = <<>> THEN st
    ELSE LET r == d1_filter_line(Head(lines), st.in_trigger_block)
         IN  FilterLines([st EXCEPT !.in_trigger_block = r.block,
                                    !.out = IF r.text = None THEN @ ELSE Append(@, r.text)],
                         Tail(lines))

\* INSERT INTO name VALUES(1, text); with the name quoted, for a text value of
\* the given lines
InsertOf(name, value) ==
    LET open == <<"INSERT", " ", "INTO", " ", DQ, name, DQ, " ", "VALUES", "(", "1", ",", "'">>
        close == <<"'", ")", ";">>
    IN  [i \in DOMAIN value |->
            (IF i = 1 THEN open ELSE <<>>) \o value[i]
                \o (IF i = Len(value) THEN close ELSE <<>>)]

\* text values: plain, with the words COMMIT and fts5, and with a line break
\* followed by plain text, a dot, a blank, an empty line, CREATE TRIGGER, PRAGMA
ValueTexts ==
    {<<<<"plain">>>>,
     <<<<"please", " ", "COMMIT">>>>,
     <<<<"uses", " ", "fts5">>>>,
     <<<<"a">>, <<"b">>>>,
     <<<<"a">>, <<".", "b">>>>,
     <<<<"a">>, <<" ", "b">>>>,
     <<<<"a">>, <<>>, <<"b">>>>,
     <<<<"x">>, <<"CREATE", " ", "TRIGGER", " ", "y">>>>,
     <<<<"a">>, <<"PRAGMA", " ", "x">>>>}

TriggerBlock ==
    <<<<"CREATE", " ", "TRIGGER", " ", "tr", " ", "AFTER", " ", "INSERT", " ", "ON", " ",
        "t", " ", "BEGIN">>,
      <<"INSERT", " ", "INTO", " ", "log", " ", "VALUES", "(", "1", ")", ";">>,
      <<"END", ";">>>>

TriggerLine ==
    <<<<"CREATE", " ", "TRIGGER", " ", "tr", " ", "AFTER", " ", "INSERT", " ", "ON", " ",
        "t", " ", "begin", " ", "DELETE", " ", "FROM", " ", "log", ";", " ", "end", ";">>>>

\* the statements a dump is drawn from
DumpStatements ==
    {InsertOf("t", v) : v \in ValueTexts}
        \cup {InsertOf("sqlite_sequence", <<<<"t">>>>), InsertOf("t_fts_data", <<<<"plain">>>>),
              TriggerBlock, TriggerLine,
              <<<<"CREATE", " ", "TABLE", " ", "t", "(", "x", ")", ";">>>>}

SourceComment == <<"--", " ", "source">>

ExportInit ==
    /\ dump \in SeqsUpTo(DumpStatements, MaxStatements)
    /\ d1 = NotCalled
    /\ EnvIdle /\ ClosureIdle /\ ReadIdle /\ BuildIdle /\ TemplateIdle /\ StatIdle
    /\ HashIdle /\ WalkIdle /\ LoadIdle /\ SearchIdle /\ RefIdle /\ ShardIdle

ExportFrame ==
    UNCHANGED <<dump, envVars, closureVars, readVars, buildVars, templateVars, statVars,
                hashVars, walkVars, loadVars, searchVars, refVars, shardVars>>

\* export_merge_d1_compatible opens the output and writes the source comment
ExportBegin ==
    /\ d1 = NotCalled
    /\ d1' = [called |-> TRUE, done |-> 0, in_trigger_block |-> FALSE,
              out |-> <<SourceComment>>]
    /\ ExportFrame

\* one statement of the dump: its lines are filtered and written
ExportStatement ==
    /\ d1.called /\ d1.done < Len(dump)
    /\ d1' = [FilterLines(d1, dump[d1.done + 1]) EXCEPT !.done = d1.done + 1]
    /\ ExportFrame

ExportNext == ExportBegin \/ ExportStatement

SpecExport == ExportInit /\ [][ExportNext]_vars

Exported == d1.called /\ d1.done = Len(dump)

\* an INSERT INTO of a table that is no FTS table, shadow table or sqlite_sequence
IsOrdinaryInsert(stmt) ==
    /\ StartsPhrase(stmt[1], <<"INSERT", "INTO">>)
    /\ ~InsertsInto(stmt[1], "SQLITE_SEQUENCE")
    /\ \A i \in DOMAIN stmt[1] : stmt[1][i] \notin PrefixedFtsWords \cup ShadowWords

\* the lines of stmt stand in out one after the other, unchanged
WrittenComplete(stmt, out) ==
    \E k \in 0..(Len(out) - Len(stmt)) : \A i \in DOMAIN stmt : out[k + i] = stmt[i]

\* C29: the export loses no data: every INSERT INTO statement of an ordinary
\* table that the dump yields is written complete, whatever its values hold
\* and whatever was filtered before it.
C29_EveryInsertWritten ==
    Exported =>
        \A n \in DOMAIN dump :
            IsOrdinaryInsert(dump[n]) => WrittenComplete(dump[n], d1.out)

-----------------------------------------------------------------------------
(* cf_worker/src/entry.py build_level_stats beside serve.py
   build_avatar_level_stats, on the same promotion rows and level cap *)

\* as_float(value) or 0.0
FloatOrZero(v) == IF v = JNull THEN JReal(0) ELSE v

\* round(base + add * (level - 1), 4) on the defaulted operands
WorkerStat(base, add, level) ==
    Round4(JReal(FloatOrZero(base).n + FloatOrZero(add).n * (level - 1)))

WorkerLevelRow(stage, level) ==
    [level |-> level,
     promotion |-> IF stage.promotion = JNull THEN JInt(0) ELSE stage.promotion,
     hp |-> WorkerStat(stage.hp_base, stage.hp_add, level),
     attack |-> WorkerStat(stage.attack_base, stage.attack_add, level),
     defence |-> WorkerStat(stage.defence_base, stage.defence_add, level),
     speed |-> Round4(FloatOrZero(stage.speed_base))]

build_level_stats(rows, max_level) ==
    LET valid == ValidPromotions(rows) IN
    IF valid = <<>> THEN <<>>
    ELSE [level \in 1..max_level |-> WorkerLevelRow(StageAt(valid, level), level)]

\* the promotion lists, and the same with a NULL promotion index in every row
WorkerPromotionLists ==
    PromotionLists \cup {[i \in DOMAIN f |-> [f[i] EXCEPT !.promotion = JNull]] :
                            f \in PromotionLists}

WorkerInit ==
    /\ promotions \in WorkerPromotionLists
    /\ level_max \in 1..MaxLevel
    /\ level_stats = NotCalled
    /\ worker_stats = NotCalled
    /\ EnvIdle /\ ClosureIdle /\ ReadIdle /\ BuildIdle /\ TemplateIdle /\ LaterIdle

\* the Worker's avatar detail handler computes the rows
BuildLevelStats ==
    /\ worker_stats = NotCalled
    /\ worker_stats' = [called |-> TRUE, rows |-> build_level_stats(promotions, level_max)]
    /\ UNCHANGED <<promotions, level_max, level_stats, envVars, closureVars, readVars,
                   buildVars, templateVars, laterVars>>

WorkerNext == BuildAvatarLevelStats \/ BuildLevelStats

SpecWorker == WorkerInit /\ [][WorkerNext]_vars

\* C30: for every promotion list and level cap, rows with NULL base values,
\* growth values or promotion index included, the Worker's build_level_stats
\* returns the list the server's build_avatar_level_stats returns.
C30_WorkerEqualsServer ==
    (level_stats.called /\ worker_stats.called) => worker_stats.rows = level_stats.rows

====
